---- MODULE Spec2Model ----
(***************************************************************************)
(* Model of the launch platform's contracts: the LaunchToken ledger and    *)
(* the BondingCurve engine (src/contracts/LaunchToken.sol), and the        *)
(* TokenFactory registry (src/contracts/TokenFactory.sol).                 *)
(*                                                                         *)
(* Specifications.  Spec is one curve and its token under trading;         *)
(* FeeSpec is the sell-fee schedule over time; LedgerSpec is a LaunchToken *)
(* called by arbitrary accounts; FactorySpec is the registry, the pairs it *)
(* creates and the trading on them.                                        *)
(*                                                                         *)
(* Units.  TLC integers are 32 bits wide, so amounts are counted in        *)
(* coarser units than the contracts' wei: one unit of FAIR is 1 ether      *)
(* (1e18 wei) and one unit of token is 5000 tokens (5e21 base units).      *)
(* Every constant below is the contract's constant expressed in these      *)
(* units; every division is the contract's integer division.               *)
(***************************************************************************)
EXTENDS Integers, Sequences, FiniteSets, TLC

\* ---------------------------------------------------------------- constants
GRADUATION_THRESHOLD == 8050
GRADUATION_SUPPLY == 140000
LIQUIDITY_TOKENS == 60000
LIQUIDITY_FAIR == 5833
VIRTUAL_FAIR_RESERVES == 570
VIRTUAL_TOKEN_RESERVES == 150000
ANTI_DUMP_DURATION == 900
INITIAL_SELL_FEE == 2000
FINAL_SELL_FEE == 100
BPS == 10000
UINT_MAX == 2000000000
\* TokenFactory.platformFeePercent as constructed
DEFAULT_PLATFORM_FEE == 100
\* TokenFactory.tokenCreationFee as constructed: 0.1 FAIR, counted as the
\* smallest positive amount of the unit used here
DEFAULT_CREATION_FEE == 1
\* the ceiling setPlatformFee enforces
MAX_PLATFORM_FEE == 1000

\* ------------------------------------------------------------------- bounds
\* number of state-changing curve operations explored
MaxOps == 2
\* reserve currency each user starts with
UserFunds == 20000
\* last point in time at which the sell fee is queried
MaxElapsed == 1000
\* largest total supply of the token called directly
MaxMinted == 2
\* number of pairs the factory creates
MaxTokens == 2
\* number of value-moving operations explored in the factory's world
MaxFactoryOps == 3

\* ----------------------------------------------------------------- accounts
Users == {"alice", "bob"}
CURVE == "curve"
TREASURY == "treasury"
ROUTER == "router"
Accounts == Users \cup {CURVE, TREASURY, ROUTER}
\* address(0)
ZERO == "0x0"

\* input sets of the external calls
BuyValues == {0, 1, 4100, 8061, 8131}
MinTokens == {0, 250}
MinFAIR == {0, 7000}
ApproveAmounts == {UINT_MAX}
TimePoints == {0, ANTI_DUMP_DURATION}
FeeChoices == {100}

VARIABLES
  tokensSold,          \* BondingCurve.tokensSold
  FAIRRaised,          \* BondingCurve.FAIRRaised
  graduated,           \* BondingCurve.graduated
  platformFeePercent,  \* BondingCurve.platformFeePercent (immutable)
  minter,              \* LaunchToken.minter
  tradingEnabled,      \* LaunchToken.tradingEnabled
  totalSupply,         \* ERC20 total supply
  balanceOf,           \* ERC20 balances
  allowance,           \* ERC20 allowance of each account towards the curve
  routerAllowance,     \* ERC20 allowance of the curve towards the router
  eth,                 \* native FAIR balance of every account
  elapsed,             \* block.timestamp - launchTime
  graduatedEvents,     \* number of Graduated events emitted
  venueCalls,          \* number of addLiquidityFAIR calls issued
  liquidityMints,      \* number of liquidity-allocation mints
  nOps,                \* number of state-changing curve operations so far
  lastOp,              \* the last call made and what it returned
  spenderAllowance,    \* ERC20 allowances [owner][spender] (LedgerSpec)
  owner,               \* TokenFactory.owner
  treasury,            \* TokenFactory.treasury
  factoryPlatformFeePercent, \* TokenFactory.platformFeePercent
  tokenCreationFee,    \* TokenFactory.tokenCreationFee
  allTokens,           \* TokenFactory.allTokens
  tokenToBondingCurve, \* TokenFactory.tokenToBondingCurve
  isValidToken,        \* TokenFactory.isValidToken
  curves,              \* every BondingCurve the factory deployed, with its token
  balance,             \* native FAIR balances of the factory's world
  status,              \* ReentrancyGuard._status of the curve
  frame                \* the call of the curve that is in flight, if any

\* the state that only LedgerSpec moves
ledgerVars == <<spenderAllowance>>

\* the state that only FactorySpec moves
factoryVars == <<owner, treasury, factoryPlatformFeePercent, tokenCreationFee,
                 allTokens, tokenToBondingCurve, isValidToken, curves, balance>>

\* the state that only ReentrySpec moves
guardVars == <<status, frame>>

vars == <<tokensSold, FAIRRaised, graduated, platformFeePercent, minter,
          tradingEnabled, totalSupply, balanceOf, allowance, routerAllowance,
          eth, elapsed, graduatedEvents, venueCalls, liquidityMints, nOps,
          lastOp, ledgerVars, factoryVars, guardVars>>

\* the contracts' storage and balances as one value
World ==
  [tokensSold |-> tokensSold, FAIRRaised |-> FAIRRaised, graduated |-> graduated,
   platformFeePercent |-> platformFeePercent,
   minter |-> minter, tradingEnabled |-> tradingEnabled,
   totalSupply |-> totalSupply, balanceOf |-> balanceOf, allowance |-> allowance,
   routerAllowance |-> routerAllowance, eth |-> eth,
   graduatedEvents |-> graduatedEvents, venueCalls |-> venueCalls,
   liquidityMints |-> liquidityMints, refusing |-> {}]

NoOp ==
  [kind |-> "init", who |-> "", arg |-> 0, min |-> 0, err |-> "ok",
   out |-> 0, net |-> 0, fee |-> 0, venue |-> "none", from |-> "", to |-> ""]

\* ------------------------------------------------------- bonding curve math
\* the constant-product output of _calculateTokensOut, before the cap
curveTokensOut(w, FAIRAmount) ==
  LET currentFAIRReserve == VIRTUAL_FAIR_RESERVES + w.FAIRRaised
      currentTokenReserve == VIRTUAL_TOKEN_RESERVES - w.tokensSold
      newFAIRReserve == currentFAIRReserve + FAIRAmount
      k == currentFAIRReserve * currentTokenReserve
      newTokenReserve == k \div newFAIRReserve
  IN currentTokenReserve - newTokenReserve

\* mutant: the cap on the curve output is forgotten
calculateTokensOutUncapped(w, FAIRAmount) ==
  curveTokensOut(w, FAIRAmount)

calculateTokensOut(w, FAIRAmount) ==
  LET tokensOut == curveTokensOut(w, FAIRAmount)
      maxTokens == GRADUATION_SUPPLY - w.tokensSold
  IN IF tokensOut > maxTokens THEN maxTokens ELSE tokensOut

calculateFAIROut(w, tokenAmount) ==
  LET currentFAIRReserve == VIRTUAL_FAIR_RESERVES + w.FAIRRaised
      currentTokenReserve == VIRTUAL_TOKEN_RESERVES - w.tokensSold
      newTokenReserve == currentTokenReserve + tokenAmount
      k == currentFAIRReserve * currentTokenReserve
      newFAIRReserve == k \div newTokenReserve
  IN currentFAIRReserve - newFAIRReserve

\* mutant: the fee decays towards zero instead of towards the final rate
getCurrentSellFeeDecaysToZero(t) ==
  IF t >= ANTI_DUMP_DURATION
  THEN FINAL_SELL_FEE
  ELSE INITIAL_SELL_FEE - ((INITIAL_SELL_FEE * t) \div ANTI_DUMP_DURATION)

getCurrentSellFee(t) ==
  IF t >= ANTI_DUMP_DURATION
  THEN FINAL_SELL_FEE
  ELSE INITIAL_SELL_FEE - (((INITIAL_SELL_FEE - FINAL_SELL_FEE) * t) \div ANTI_DUMP_DURATION)

\* ------------------------------------------------------------------- ledger
\* mutant: the onlyMinter modifier is missing on mint
tokenMintUnguarded(w, caller, to, amount) ==
  [err |-> "ok",
   w |-> [w EXCEPT !.totalSupply = @ + amount, !.balanceOf[to] = @ + amount]]

\* LaunchToken.mint called by `caller`: onlyMinter, then ERC20._mint
tokenMint(w, caller, to, amount) ==
  IF caller # w.minter
  THEN [err |-> "Not minter", w |-> w]
  ELSE [err |-> "ok",
        w |-> [w EXCEPT !.totalSupply = @ + amount,
                        !.balanceOf[to] = @ + amount]]

\* LaunchToken.setMinter (any caller)
setMinter(l, m) ==
  IF l.minter # ZERO THEN [err |-> "Minter already set", l |-> l]
  ELSE [err |-> "ok", l |-> [l EXCEPT !.minter = m]]

\* mutant: the onlyMinter modifier is missing
enableTradingUnguarded(l, caller) ==
  [err |-> "ok", l |-> [l EXCEPT !.tradingEnabled = TRUE]]

\* LaunchToken.enableTrading called by `caller`
enableTrading(l, caller) ==
  IF caller # l.minter THEN [err |-> "Not minter", l |-> l]
  ELSE [err |-> "ok", l |-> [l EXCEPT !.tradingEnabled = TRUE]]

\* ERC20._update of the base contract: from = ZERO mints, to = ZERO burns
superUpdate(l, from, to, amount) ==
  IF from # ZERO /\ l.balanceOf[from] < amount
  THEN [err |-> "ERC20InsufficientBalance", l |-> l]
  ELSE
    LET l1 == IF from = ZERO
              THEN [l EXCEPT !.totalSupply = @ + amount]
              ELSE [l EXCEPT !.balanceOf[from] = @ - amount]
        l2 == IF to = ZERO
              THEN [l1 EXCEPT !.totalSupply = @ - amount]
              ELSE [l1 EXCEPT !.balanceOf[to] = @ + amount]
    IN [err |-> "ok", l |-> l2]

\* mutant: the gate is missing
updateUngated(l, from, to, amount) ==
  superUpdate(l, from, to, amount)

\* LaunchToken._update: the override carrying the transfer gate
update(l, from, to, amount) ==
  IF from = ZERO \/ to = ZERO THEN superUpdate(l, from, to, amount)
  ELSE IF from = l.minter \/ to = l.minter THEN superUpdate(l, from, to, amount)
  ELSE IF ~l.tradingEnabled THEN [err |-> "Trading not enabled", l |-> l]
  ELSE superUpdate(l, from, to, amount)

\* ERC20._spendAllowance: an unlimited allowance is not consumed
spendAllowance(l, tokenOwner, spender, amount) ==
  LET current == l.spenderAllowance[tokenOwner][spender]
  IN IF current = UINT_MAX THEN [err |-> "ok", l |-> l]
     ELSE IF current < amount
     THEN [err |-> "ERC20InsufficientAllowance", l |-> l]
     ELSE [err |-> "ok",
           l |-> [l EXCEPT !.spenderAllowance[tokenOwner][spender] = @ - amount]]

\* ERC20.transfer called by `caller`
transfer(l, caller, to, amount) ==
  IF to = ZERO THEN [err |-> "ERC20InvalidReceiver", l |-> l]
  ELSE LET r == update(l, caller, to, amount)
       IN IF r.err # "ok" THEN [err |-> r.err, l |-> l] ELSE r

\* ERC20.transferFrom called by `spender`
transferFrom(l, spender, from, to, amount) ==
  LET sp == spendAllowance(l, from, spender, amount)
      r == IF to = ZERO THEN [err |-> "ERC20InvalidReceiver", l |-> l]
           ELSE update(sp.l, from, to, amount)
  IN IF sp.err # "ok" THEN [err |-> sp.err, l |-> l]
     ELSE IF r.err # "ok" THEN [err |-> r.err, l |-> l]
     ELSE r

\* ERC20Burnable.burn called by `caller`
burn(l, caller, amount) ==
  LET r == update(l, caller, ZERO, amount)
  IN IF r.err # "ok" THEN [err |-> r.err, l |-> l] ELSE r

\* ERC20Burnable.burnFrom called by `spender`
burnFrom(l, spender, account, amount) ==
  LET sp == spendAllowance(l, account, spender, amount)
      r == update(sp.l, account, ZERO, amount)
  IN IF sp.err # "ok" THEN [err |-> sp.err, l |-> l]
     ELSE IF r.err # "ok" THEN [err |-> r.err, l |-> l]
     ELSE r

\* ERC20Burnable.burnFrom called by the curve: spend allowance, then burn
tokenBurnFrom(w, account, amount) ==
  IF w.allowance[account] # UINT_MAX /\ w.allowance[account] < amount
  THEN [err |-> "ERC20InsufficientAllowance", w |-> w]
  ELSE IF w.balanceOf[account] < amount
  THEN [err |-> "ERC20InsufficientBalance", w |-> w]
  ELSE [err |-> "ok",
        w |-> [w EXCEPT !.allowance[account] =
                           IF @ = UINT_MAX THEN @ ELSE @ - amount,
                        !.balanceOf[account] = @ - amount,
                        !.totalSupply = @ - amount]]

\* payable(to).transfer(amount) issued by `from`: reverts when unfunded, or
\* when the payee is a contract that does not accept the payment
ethTransfer(w, from, to, amount) ==
  IF w.eth[from] < amount \/ to \in w.refusing
  THEN [err |-> "Transfer failed", w |-> w]
  ELSE [err |-> "ok",
        w |-> [w EXCEPT !.eth[from] = @ - amount, !.eth[to] = @ + amount]]

\* ---------------------------------------------------------------- graduation
\* ITraderJoeRouter.addLiquidityFAIR{value: LIQUIDITY_FAIR}: the venue either
\* takes the reserve and the approved tokens, or reverts (venueOk = FALSE, or
\* the curve cannot fund the value it attaches)
addLiquidityFAIR(w, venueOk) ==
  IF ~venueOk \/ w.eth[CURVE] < LIQUIDITY_FAIR
  THEN [err |-> "VenueFailure", w |-> w]
  ELSE [err |-> "ok",
        w |-> [w EXCEPT !.eth[CURVE] = @ - LIQUIDITY_FAIR,
                        !.eth[ROUTER] = @ + LIQUIDITY_FAIR,
                        !.balanceOf[CURVE] = @ - LIQUIDITY_TOKENS,
                        !.balanceOf[ROUTER] = @ + LIQUIDITY_TOKENS,
                        !.routerAllowance = @ - LIQUIDITY_TOKENS]]

\* mutant: the reserve is not reset on graduation
finishGraduationNoReset(w) ==
  [w EXCEPT !.graduatedEvents = @ + 1]

\* the success branch's bookkeeping: reset the reserve, emit Graduated
finishGraduation(w) ==
  [w EXCEPT !.FAIRRaised = 0, !.graduatedEvents = @ + 1]

\* mutant: the catch branch forgets to reset the flag
rollbackGraduationMissing(w) ==
  w

\* the catch branch: only the flag is reset
rollbackGraduation(w) ==
  [w EXCEPT !.graduated = FALSE]

\* mutant: the trigger misses a reserve exactly at the threshold
graduationDueStrict(w) ==
  w.FAIRRaised > GRADUATION_THRESHOLD

\* the trigger evaluated at the end of a buy
graduationDue(w) ==
  w.FAIRRaised >= GRADUATION_THRESHOLD

\* BondingCurve._executeGraduation; err # "ok" means the enclosing call reverts
executeGraduation(w, venueOk) ==
  IF w.graduated THEN [err |-> "Already graduated", w |-> w, venue |-> "none"]
  ELSE IF w.FAIRRaised < GRADUATION_THRESHOLD
  THEN [err |-> "Threshold not met", w |-> w, venue |-> "none"]
  ELSE
    LET w1 == [w EXCEPT !.graduated = TRUE]
        \* token.enableTrading(): onlyMinter
        en == IF CURVE # w1.minter
              THEN [err |-> "Not minter", w |-> w1]
              ELSE [err |-> "ok", w |-> [w1 EXCEPT !.tradingEnabled = TRUE]]
        teamFAIR == w.FAIRRaised - LIQUIDITY_FAIR
        mt == tokenMint(en.w, CURVE, CURVE, LIQUIDITY_TOKENS)
        w2 == [mt.w EXCEPT !.liquidityMints = @ + 1,
                           !.routerAllowance = LIQUIDITY_TOKENS,
                           !.venueCalls = @ + 1]
        vn == addLiquidityFAIR(w2, venueOk)
    IN IF en.err # "ok" THEN [err |-> en.err, w |-> w, venue |-> "none"]
       ELSE IF mt.err # "ok" THEN [err |-> mt.err, w |-> w, venue |-> "none"]
       ELSE IF vn.err = "ok"
       THEN LET pay == IF teamFAIR > 0
                       THEN ethTransfer(vn.w, CURVE, TREASURY, teamFAIR)
                       ELSE [err |-> "ok", w |-> vn.w]
            IN IF pay.err # "ok"
               THEN [err |-> pay.err, w |-> w, venue |-> "ok"]
               ELSE [err |-> "ok", w |-> finishGraduation(pay.w), venue |-> "ok"]
       ELSE [err |-> "ok", w |-> rollbackGraduation(w2), venue |-> "failed"]

\* -------------------------------------------------------------------- trading
Rejected(w, e) ==
  [err |-> e, w |-> w, out |-> 0, net |-> 0, fee |-> 0, venue |-> "none"]

\* the requires of _buyTokensFor, in the order the code evaluates them
buyChecks(w, value, buyAmount, tokensOut, minTokensOut) ==
  IF ~(value > 0) THEN "Must send FAIR"
  ELSE IF ~(w.tokensSold < GRADUATION_SUPPLY) THEN "Curve complete"
  ELSE IF ~(buyAmount > 0) THEN "Insufficient after fees"
  ELSE IF ~(tokensOut > 0) THEN "No tokens calculated"
  ELSE IF ~(tokensOut >= minTokensOut) THEN "Slippage exceeded"
  ELSE IF ~(w.tokensSold + tokensOut <= GRADUATION_SUPPLY)
  THEN "Exceeds graduation supply"
  ELSE "ok"

\* the effects of _buyTokensFor once its requires have passed
buyEffects(pre, w, recipient, platformFee, buyAmount, tokensOut, venueOk) ==
  LET w1 == [w EXCEPT !.tokensSold = @ + tokensOut,
                      !.FAIRRaised = @ + buyAmount]
      mt == tokenMint(w1, CURVE, recipient, tokensOut)
      pay == IF platformFee > 0
             THEN ethTransfer(mt.w, CURVE, TREASURY, platformFee)
             ELSE [err |-> "ok", w |-> mt.w]
      gr == IF graduationDue(pay.w)
            THEN executeGraduation(pay.w, venueOk)
            ELSE [err |-> "ok", w |-> pay.w, venue |-> "none"]
  IN IF mt.err # "ok" THEN Rejected(pre, mt.err)
     ELSE IF pay.err # "ok" THEN Rejected(pre, pay.err)
     ELSE IF gr.err # "ok" THEN Rejected(pre, gr.err)
     ELSE [err |-> "ok", w |-> gr.w, out |-> tokensOut, net |-> buyAmount,
           fee |-> platformFee, venue |-> gr.venue]

\* mutant: a failed require returns early instead of reverting, so the curve
\* keeps the value sent with the call
buyTokensForInternalKeepsValue(pre, w, recipient, value, minTokensOut, venueOk) ==
  LET platformFee == (value * w.platformFeePercent) \div BPS
      buyAmount == value - platformFee
      tokensOut == calculateTokensOut(w, buyAmount)
      chk == buyChecks(w, value, buyAmount, tokensOut, minTokensOut)
  IN IF chk # "ok" THEN Rejected(w, chk)
     ELSE buyEffects(pre, w, recipient, platformFee, buyAmount, tokensOut, venueOk)

\* BondingCurve._buyTokensFor, entered with msg.value already credited to the
\* curve; `pre` is the state the call reverts to
buyTokensForInternal(pre, w, recipient, value, minTokensOut, venueOk) ==
  LET platformFee == (value * w.platformFeePercent) \div BPS
      buyAmount == value - platformFee
      tokensOut == calculateTokensOut(w, buyAmount)
      chk == buyChecks(w, value, buyAmount, tokensOut, minTokensOut)
  IN IF chk # "ok" THEN Rejected(pre, chk)
     ELSE buyEffects(pre, w, recipient, platformFee, buyAmount, tokensOut, venueOk)

\* mutant: the notGraduated modifier is missing
buyTokensUngated(w, sender, value, minTokensOut, venueOk) ==
  buyTokensForInternal(
    w,
    [w EXCEPT !.eth[sender] = @ - value, !.eth[CURVE] = @ + value],
    sender, value, minTokensOut, venueOk)

\* BondingCurve.buyTokens: payable, notGraduated, nonReentrant
buyTokens(w, sender, value, minTokensOut, venueOk) ==
  IF w.graduated THEN Rejected(w, "Token graduated")
  ELSE buyTokensForInternal(
         w,
         [w EXCEPT !.eth[sender] = @ - value, !.eth[CURVE] = @ + value],
         sender, value, minTokensOut, venueOk)

\* mutant: the balance require comes before the supply require
sellChecksBalanceFirst(w, sender, tokenAmount, minFAIROut, FAIROut, netFAIROut) ==
  IF w.graduated THEN "Token graduated"
  ELSE IF ~(tokenAmount > 0) THEN "Invalid amount"
  ELSE IF ~(w.balanceOf[sender] >= tokenAmount) THEN "Insufficient balance"
  ELSE IF ~(w.tokensSold >= tokenAmount) THEN "Insufficient supply sold"
  ELSE IF ~(FAIROut > 0) THEN "No FAIR calculated"
  ELSE IF ~(FAIROut <= w.FAIRRaised) THEN "Insufficient reserves"
  ELSE IF ~(netFAIROut >= minFAIROut) THEN "Slippage exceeded"
  ELSE "ok"

\* mutant: the slippage require compares the amount before the sell fee
sellChecksGrossSlippage(w, sender, tokenAmount, minFAIROut, FAIROut, netFAIROut) ==
  IF w.graduated THEN "Token graduated"
  ELSE IF ~(tokenAmount > 0) THEN "Invalid amount"
  ELSE IF ~(w.tokensSold >= tokenAmount) THEN "Insufficient supply sold"
  ELSE IF ~(w.balanceOf[sender] >= tokenAmount) THEN "Insufficient balance"
  ELSE IF ~(FAIROut > 0) THEN "No FAIR calculated"
  ELSE IF ~(FAIROut <= w.FAIRRaised) THEN "Insufficient reserves"
  ELSE IF ~(FAIROut >= minFAIROut) THEN "Slippage exceeded"
  ELSE "ok"

\* the modifier and requires of sellTokens, in the order the code evaluates
\* them
sellChecks(w, sender, tokenAmount, minFAIROut, FAIROut, netFAIROut) ==
  IF w.graduated THEN "Token graduated"
  ELSE IF ~(tokenAmount > 0) THEN "Invalid amount"
  ELSE IF ~(w.tokensSold >= tokenAmount) THEN "Insufficient supply sold"
  ELSE IF ~(w.balanceOf[sender] >= tokenAmount) THEN "Insufficient balance"
  ELSE IF ~(FAIROut > 0) THEN "No FAIR calculated"
  ELSE IF ~(FAIROut <= w.FAIRRaised) THEN "Insufficient reserves"
  ELSE IF ~(netFAIROut >= minFAIROut) THEN "Slippage exceeded"
  ELSE "ok"

\* mutant: a sell leaves tokensSold as it was
sellBookkeepingKeepsSold(w, tokenAmount, FAIROut) ==
  [w EXCEPT !.FAIRRaised = @ - FAIROut]

\* mutant: a sell leaves FAIRRaised as it was
sellBookkeepingKeepsReserve(w, tokenAmount, FAIROut) ==
  [w EXCEPT !.tokensSold = @ - tokenAmount]

\* sellTokens, "Update state BEFORE external calls"
sellBookkeeping(w, tokenAmount, FAIROut) ==
  [w EXCEPT !.tokensSold = @ - tokenAmount, !.FAIRRaised = @ - FAIROut]

\* BondingCurve.sellTokens: notGraduated, nonReentrant
sellTokens(w, sender, tokenAmount, minFAIROut, t) ==
  LET FAIROut == calculateFAIROut(w, tokenAmount)
      sellFee == getCurrentSellFee(t)
      feeAmount == (FAIROut * sellFee) \div BPS
      netFAIROut == FAIROut - feeAmount
      chk == sellChecks(w, sender, tokenAmount, minFAIROut, FAIROut, netFAIROut)
  IN IF chk # "ok" THEN Rejected(w, chk)
     ELSE
       LET w1 == sellBookkeeping(w, tokenAmount, FAIROut)
           bn == tokenBurnFrom(w1, sender, tokenAmount)
           p1 == ethTransfer(bn.w, CURVE, sender, netFAIROut)
           p2 == IF feeAmount > 0
                 THEN ethTransfer(p1.w, CURVE, TREASURY, feeAmount)
                 ELSE [err |-> "ok", w |-> p1.w]
       IN IF bn.err # "ok" THEN Rejected(w, bn.err)
          ELSE IF p1.err # "ok" THEN Rejected(w, p1.err)
          ELSE IF p2.err # "ok" THEN Rejected(w, p2.err)
          ELSE [err |-> "ok", w |-> p2.w, out |-> FAIROut, net |-> netFAIROut,
                fee |-> feeAmount, venue |-> "none"]

\* BondingCurve.previewBuy; the price outputs (newPrice, priceImpact) are
\* left out, no statement checked here concerns them
previewBuy(w, FAIRAmount) ==
  IF FAIRAmount = 0 \/ w.graduated THEN [tokensOut |-> 0, platformFee |-> 0]
  ELSE
    LET platformFee == (FAIRAmount * w.platformFeePercent) \div BPS
        buyAmount == FAIRAmount - platformFee
        tokensOut == calculateTokensOut(w, buyAmount)
    IN IF buyAmount = 0 THEN [tokensOut |-> 0, platformFee |-> platformFee]
       ELSE IF tokensOut = 0 THEN [tokensOut |-> 0, platformFee |-> platformFee]
       ELSE [tokensOut |-> IF w.tokensSold + tokensOut > GRADUATION_SUPPLY
                           THEN GRADUATION_SUPPLY - w.tokensSold
                           ELSE tokensOut,
             platformFee |-> platformFee]

\* mutant: the preview forgets the sell fee
previewSellGross(w, tokenAmount, t) ==
  IF tokenAmount = 0 \/ w.graduated \/ tokenAmount > w.tokensSold
  THEN [FAIROut |-> 0, netFAIROut |-> 0, sellFee |-> 0, feeAmount |-> 0]
  ELSE
    LET FAIROut == calculateFAIROut(w, tokenAmount)
    IN [FAIROut |-> FAIROut, netFAIROut |-> FAIROut, sellFee |-> 0,
        feeAmount |-> 0]

\* BondingCurve.previewSell at block.timestamp - launchTime = t
previewSell(w, tokenAmount, t) ==
  IF tokenAmount = 0 \/ w.graduated \/ tokenAmount > w.tokensSold
  THEN [FAIROut |-> 0, netFAIROut |-> 0, sellFee |-> 0, feeAmount |-> 0]
  ELSE
    LET FAIROut == calculateFAIROut(w, tokenAmount)
        sellFee == getCurrentSellFee(t)
        feeAmount == (FAIROut * sellFee) \div BPS
    IN [FAIROut |-> FAIROut, netFAIROut |-> FAIROut - feeAmount,
        sellFee |-> sellFee, feeAmount |-> feeAmount]

\* BondingCurve.forceGraduation, called by the factory
forceGraduation(w, venueOk) ==
  IF w.graduated THEN [err |-> "Already graduated", w |-> w, venue |-> "none"]
  ELSE IF w.FAIRRaised < GRADUATION_THRESHOLD
  THEN [err |-> "Threshold not met", w |-> w, venue |-> "none"]
  ELSE executeGraduation(w, venueOk)

\* BondingCurve.emergencyWithdraw, called by the factory
emergencyWithdraw(w) ==
  ethTransfer(w, CURVE, TREASURY, w.eth[CURVE])

\* -------------------------------------------------------------- state machine
\* accounts of the factory's world: the factory, its owner, the treasuries
\* and routers it can be pointed at, and the addresses of the contracts it
\* deploys, in deployment order
FACTORY == "factory"
OWNER == "owner"
TREASURY2 == "treasury2"
ROUTER2 == "router2"
TokenAddrs == <<"token1", "token2", "token3", "token4">>
CurveAddrs == <<"curve1", "curve2", "curve3", "curve4">>
TokenSet == {TokenAddrs[i] : i \in DOMAIN TokenAddrs}
CurveSet == {CurveAddrs[i] : i \in DOMAIN CurveAddrs}
FactoryAccounts ==
  Users \cup {FACTORY, OWNER, TREASURY, TREASURY2, ROUTER, ROUTER2} \cup CurveSet

\* ReentrancyGuard._status
NOT_ENTERED == "NOT_ENTERED"
ENTERED == "ENTERED"

\* no call of the curve is in flight
NoFrame == [op |-> "none", who |-> "", arg |-> 0, points |-> <<>>, i |-> 0,
            final |-> [err |-> "ok", out |-> 0, net |-> 0, fee |-> 0,
                       venue |-> "none"]]

\* the guard as constructed, between transactions
GuardIdle ==
  /\ status = NOT_ENTERED
  /\ frame = NoFrame

\* no allowance has been given on the token
LedgerIdle ==
  spenderAllowance = [o \in Accounts |-> [sp \in Accounts |-> 0]]

\* TokenFactory's constructor, called by OWNER with _treasury = TREASURY
FactoryInit ==
  /\ owner = OWNER
  /\ treasury = TREASURY
  /\ factoryPlatformFeePercent = DEFAULT_PLATFORM_FEE
  /\ tokenCreationFee = DEFAULT_CREATION_FEE
  /\ allTokens = <<>>
  /\ tokenToBondingCurve = [t \in TokenSet |-> ZERO]
  /\ isValidToken = [t \in TokenSet |-> FALSE]
  /\ curves = [c \in {} |-> 0]
  /\ balance = [a \in FactoryAccounts |-> IF a \in Users THEN UserFunds ELSE 0]

Init ==
  /\ tokensSold = 0
  /\ FAIRRaised = 0
  /\ graduated = FALSE
  /\ platformFeePercent \in FeeChoices
  /\ minter = CURVE
  /\ tradingEnabled = FALSE
  /\ totalSupply = 0
  /\ balanceOf = [a \in Accounts |-> 0]
  /\ allowance = [a \in Accounts |-> 0]
  /\ routerAllowance = 0
  /\ eth = [a \in Accounts |-> IF a \in Users THEN UserFunds ELSE 0]
  /\ elapsed = 0
  /\ graduatedEvents = 0
  /\ venueCalls = 0
  /\ liquidityMints = 0
  /\ nOps = 0
  /\ lastOp = NoOp
  /\ LedgerIdle
  /\ FactoryInit
  /\ GuardIdle

\* install a world value as the next state
Install(w) ==
  /\ tokensSold' = w.tokensSold
  /\ FAIRRaised' = w.FAIRRaised
  /\ graduated' = w.graduated
  /\ minter' = w.minter
  /\ tradingEnabled' = w.tradingEnabled
  /\ totalSupply' = w.totalSupply
  /\ balanceOf' = w.balanceOf
  /\ allowance' = w.allowance
  /\ routerAllowance' = w.routerAllowance
  /\ eth' = w.eth
  /\ graduatedEvents' = w.graduatedEvents
  /\ venueCalls' = w.venueCalls
  /\ liquidityMints' = w.liquidityMints

\* what is observed of a call: its result, and for a call that went through
\* also its caller, arguments and amounts
Outcome(kind, u, arg, min, r) ==
  IF r.err = "ok"
  THEN [NoOp EXCEPT !.kind = kind, !.who = u, !.arg = arg, !.min = min,
                    !.out = r.out, !.net = r.net, !.fee = r.fee,
                    !.venue = r.venue]
  ELSE [NoOp EXCEPT !.kind = kind, !.err = r.err]

\* a curve operation counts against MaxOps when it changes the state
Counted(r) ==
  /\ r.err = "ok" => nOps < MaxOps
  /\ nOps' = IF r.err = "ok" THEN nOps + 1 ELSE nOps

BuyTokens(u, value, minTokensOut, venueOk) ==
  /\ value <= eth[u]
  /\ LET r == buyTokens(World, u, value, minTokensOut, venueOk)
     IN /\ Counted(r)
        /\ Install(r.w)
        /\ lastOp' = Outcome("buy", u, value, minTokensOut, r)
  /\ UNCHANGED <<platformFeePercent, elapsed, ledgerVars, guardVars, factoryVars>>

SellAmounts(u) ==
  {a \in {0, balanceOf[u], balanceOf[u] - 1, tokensSold + 1} : a >= 0}
    \cup (IF lastOp.kind = "buy" /\ lastOp.err = "ok" THEN {lastOp.out} ELSE {})

SellTokens(u, tokenAmount, minFAIROut) ==
  /\ LET r == sellTokens(World, u, tokenAmount, minFAIROut, elapsed)
     IN /\ Counted(r)
        /\ Install(r.w)
        /\ lastOp' = Outcome("sell", u, tokenAmount, minFAIROut, r)
  /\ UNCHANGED <<platformFeePercent, elapsed, ledgerVars, guardVars, factoryVars>>

\* ERC20.approve(curve, amount) by a holder
Approve(u, amount) ==
  /\ allowance' = [allowance EXCEPT ![u] = amount]
  /\ lastOp' = [NoOp EXCEPT !.kind = "approve"]
  /\ UNCHANGED <<tokensSold, FAIRRaised, graduated, platformFeePercent, minter,
                 tradingEnabled, totalSupply, balanceOf, routerAllowance, eth,
                 elapsed, graduatedEvents, venueCalls, liquidityMints, nOps,
                 ledgerVars, guardVars, factoryVars>>

ForceGraduation(venueOk) ==
  /\ LET r == forceGraduation(World, venueOk)
     IN /\ Counted(r)
        /\ Install(r.w)
        /\ lastOp' = [NoOp EXCEPT !.kind = "forceGraduation", !.who = "factory",
                                  !.err = r.err, !.venue = r.venue]
  /\ UNCHANGED <<platformFeePercent, elapsed, ledgerVars, guardVars, factoryVars>>

EmergencyWithdraw ==
  /\ LET r == emergencyWithdraw(World)
     IN /\ Counted(r)
        /\ Install(r.w)
        /\ lastOp' = [NoOp EXCEPT !.kind = "emergencyWithdraw", !.who = "factory",
                                  !.err = r.err, !.out = eth[CURVE]]
  /\ UNCHANGED <<platformFeePercent, elapsed, ledgerVars, guardVars, factoryVars>>

\* block.timestamp moves forward
AdvanceTime(t) ==
  /\ t > elapsed
  /\ elapsed' = t
  /\ lastOp' = [NoOp EXCEPT !.kind = "time"]
  /\ UNCHANGED <<tokensSold, FAIRRaised, graduated, platformFeePercent, minter,
                 tradingEnabled, totalSupply, balanceOf, allowance,
                 routerAllowance, eth, graduatedEvents, venueCalls,
                 liquidityMints, nOps, ledgerVars, guardVars, factoryVars>>

\* the venue's answer is an input only of a call that can reach the venue
VenueOutcomes(value) ==
  IF ~graduated /\ FAIRRaised + value >= GRADUATION_THRESHOLD
  THEN BOOLEAN ELSE {TRUE}

Next ==
  \/ \E u \in Users, v \in BuyValues, m \in MinTokens :
       \E ok \in VenueOutcomes(v) : BuyTokens(u, v, m, ok)
  \/ \E u \in Users, m \in MinFAIR : \E a \in SellAmounts(u) :
       SellTokens(u, a, m)
  \/ \E u \in Users, a \in ApproveAmounts : Approve(u, a)
  \/ \E ok \in VenueOutcomes(0) : ForceGraduation(ok)
  \/ EmergencyWithdraw
  \/ \E t \in TimePoints : AdvanceTime(t)

Spec == Init /\ [][Next]_vars

\* ------------------------------------------------------- the sell-fee schedule
\* a call of getCurrentSellFee at the current time
GetCurrentSellFee ==
  /\ lastOp' = [NoOp EXCEPT !.kind = "getCurrentSellFee", !.arg = elapsed,
                            !.out = getCurrentSellFee(elapsed)]
  /\ UNCHANGED <<tokensSold, FAIRRaised, graduated, platformFeePercent, minter,
                 tradingEnabled, totalSupply, balanceOf, allowance,
                 routerAllowance, eth, elapsed, graduatedEvents, venueCalls,
                 liquidityMints, nOps, ledgerVars, guardVars, factoryVars>>

\* how far block.timestamp moves in one step
TickSteps == {1, 60}

FeeNext ==
  \/ \E d \in TickSteps : elapsed + d <= MaxElapsed /\ AdvanceTime(elapsed + d)
  \/ GetCurrentSellFee

FeeSpec == Init /\ [][FeeNext]_vars

\* ------------------------------------------------- the token called directly
\* the LaunchToken's storage as one value
Ledger ==
  [minter |-> minter, tradingEnabled |-> tradingEnabled,
   totalSupply |-> totalSupply, balanceOf |-> balanceOf,
   spenderAllowance |-> spenderAllowance]

\* accounts that call the token, arguments they pass
LedgerCallers == {"alice", "bob", CURVE}
MinterChoices == {ZERO, CURVE, "alice"}
LedgerAmounts == {0, 1}
AllowanceOwners == {"alice"}
AllowanceSpenders == {"bob", CURVE}
AllowanceAmounts == {1, UINT_MAX}

\* the token after its constructor: no minter yet, nothing minted
LedgerInit ==
  /\ tokensSold = 0
  /\ FAIRRaised = 0
  /\ graduated = FALSE
  /\ platformFeePercent = DEFAULT_PLATFORM_FEE
  /\ minter = ZERO
  /\ tradingEnabled = FALSE
  /\ totalSupply = 0
  /\ balanceOf = [a \in Accounts |-> 0]
  /\ allowance = [a \in Accounts |-> 0]
  /\ routerAllowance = 0
  /\ eth = [a \in Accounts |-> 0]
  /\ elapsed = 0
  /\ graduatedEvents = 0
  /\ venueCalls = 0
  /\ liquidityMints = 0
  /\ nOps = 0
  /\ lastOp = NoOp
  /\ LedgerIdle
  /\ FactoryInit
  /\ GuardIdle

\* install a ledger value as the next state and record the call
LedgerStep(kind, caller, from, to, amount, r, l) ==
  /\ minter' = l.minter
  /\ tradingEnabled' = l.tradingEnabled
  /\ totalSupply' = l.totalSupply
  /\ balanceOf' = l.balanceOf
  /\ spenderAllowance' = l.spenderAllowance
  /\ lastOp' = IF r.err = "ok"
               THEN [NoOp EXCEPT !.kind = kind, !.who = caller, !.from = from,
                                 !.to = to, !.arg = amount]
               ELSE [NoOp EXCEPT !.kind = kind, !.who = caller, !.err = r.err]
  /\ UNCHANGED <<tokensSold, FAIRRaised, graduated, platformFeePercent,
                 allowance, routerAllowance, eth, elapsed, graduatedEvents,
                 venueCalls, liquidityMints, nOps, factoryVars,
                 guardVars>>

SetMinter(caller, m) ==
  LET r == setMinter(Ledger, m)
  IN LedgerStep("setMinter", caller, "", m, 0, r, r.l)

EnableTrading(caller) ==
  LET r == enableTrading(Ledger, caller)
  IN LedgerStep("enableTrading", caller, "", "", 0, r, r.l)

Mint(caller, to, amount) ==
  /\ totalSupply + amount <= MaxMinted
  /\ LET r == tokenMint(Ledger, caller, to, amount)
     IN LedgerStep("mint", caller, ZERO, to, amount, r, r.w)

TransferTokens(caller, to, amount) ==
  LET r == transfer(Ledger, caller, to, amount)
  IN LedgerStep("transfer", caller, caller, to, amount, r, r.l)

TransferFrom(spender, from, to, amount) ==
  LET r == transferFrom(Ledger, spender, from, to, amount)
  IN LedgerStep("transferFrom", spender, from, to, amount, r, r.l)

\* ERC20.approve(spender, amount) called by `tokenOwner`
ApproveSpender(tokenOwner, spender, amount) ==
  LET l == [Ledger EXCEPT !.spenderAllowance[tokenOwner][spender] = amount]
  IN LedgerStep("approve", tokenOwner, tokenOwner, spender, amount,
                [err |-> "ok"], l)

Burn(caller, amount) ==
  LET r == burn(Ledger, caller, amount)
  IN LedgerStep("burn", caller, caller, ZERO, amount, r, r.l)

BurnFrom(spender, account, amount) ==
  LET r == burnFrom(Ledger, spender, account, amount)
  IN LedgerStep("burnFrom", spender, account, ZERO, amount, r, r.l)

LedgerNext ==
  \/ \E c \in LedgerCallers, m \in MinterChoices : SetMinter(c, m)
  \/ \E c \in LedgerCallers : EnableTrading(c)
  \/ \E c \in LedgerCallers, to \in LedgerCallers, a \in LedgerAmounts :
       Mint(c, to, a)
  \/ \E c \in LedgerCallers, to \in LedgerCallers \cup {ZERO},
        a \in LedgerAmounts : TransferTokens(c, to, a)
  \/ \E c \in LedgerCallers, f \in AllowanceOwners, to \in LedgerCallers,
        a \in LedgerAmounts : TransferFrom(c, f, to, a)
  \/ \E o \in AllowanceOwners, sp \in AllowanceSpenders,
        a \in AllowanceAmounts : ApproveSpender(o, sp, a)
  \/ \E c \in LedgerCallers, a \in LedgerAmounts : Burn(c, a)
  \/ \E c \in LedgerCallers, f \in AllowanceOwners, a \in LedgerAmounts :
       BurnFrom(c, f, a)

LedgerSpec == LedgerInit /\ [][LedgerNext]_vars

\* ----------------------------------------------------------------- the factory
\* TokenFactory's storage, the contracts it deployed and the native balances
\* as one value
FactoryWorld ==
  [owner |-> owner, treasury |-> treasury,
   factoryPlatformFeePercent |-> factoryPlatformFeePercent,
   tokenCreationFee |-> tokenCreationFee, allTokens |-> allTokens,
   tokenToBondingCurve |-> tokenToBondingCurve, isValidToken |-> isValidToken,
   curves |-> curves, balance |-> balance]

\* a LaunchToken and the BondingCurve deployed for it, as constructed: the
\* curve fixes treasury and platformFeePercent from its constructor arguments
newPair(token, _treasury, _platformFeePercent) ==
  [token |-> token, factory |-> FACTORY, treasury |-> _treasury,
   platformFeePercent |-> _platformFeePercent, traderJoeRouter |-> ROUTER,
   tokensSold |-> 0, FAIRRaised |-> 0, graduated |-> FALSE,
   minter |-> ZERO, tradingEnabled |-> FALSE, totalSupply |-> 0,
   balanceOf |-> [a \in Accounts |-> 0], allowance |-> [a \in Accounts |-> 0],
   routerAllowance |-> 0, graduatedEvents |-> 0, venueCalls |-> 0,
   liquidityMints |-> 0]

\* mutant: a curve reads treasury and fee from the factory's current settings
curveConfigLive(f, c) ==
  [treasury |-> f.treasury, platformFeePercent |-> f.factoryPlatformFeePercent,
   traderJoeRouter |-> f.curves[c].traderJoeRouter]

\* what curve c pays to and charges: its immutable treasury and
\* platformFeePercent, and its current router
curveConfig(f, c) ==
  [treasury |-> f.curves[c].treasury,
   platformFeePercent |-> f.curves[c].platformFeePercent,
   traderJoeRouter |-> f.curves[c].traderJoeRouter]

\* the world as curve c sees it: CURVE is c itself, TREASURY and ROUTER are
\* c's treasury and router; `accepts` tells whether that treasury takes a
\* payment made in this call
curveView(f, c, accepts) ==
  LET cv == f.curves[c]
      cfg == curveConfig(f, c)
  IN [tokensSold |-> cv.tokensSold, FAIRRaised |-> cv.FAIRRaised,
      graduated |-> cv.graduated,
      platformFeePercent |-> cfg.platformFeePercent,
      minter |-> IF cv.minter = c THEN CURVE ELSE cv.minter,
      tradingEnabled |-> cv.tradingEnabled, totalSupply |-> cv.totalSupply,
      balanceOf |-> cv.balanceOf, allowance |-> cv.allowance,
      routerAllowance |-> cv.routerAllowance,
      eth |-> [a \in Accounts |->
                 IF a = CURVE THEN f.balance[c]
                 ELSE IF a = TREASURY THEN f.balance[cfg.treasury]
                 ELSE IF a = ROUTER THEN f.balance[cfg.traderJoeRouter]
                 ELSE f.balance[a]],
      graduatedEvents |-> cv.graduatedEvents, venueCalls |-> cv.venueCalls,
      liquidityMints |-> cv.liquidityMints,
      refusing |-> IF accepts THEN {} ELSE {TREASURY}]

\* the factory's world once curve c has left its own world as w
curveStore(f, c, w) ==
  LET cfg == curveConfig(f, c)
  IN [f EXCEPT
        !.curves[c] =
          [@ EXCEPT !.tokensSold = w.tokensSold, !.FAIRRaised = w.FAIRRaised,
                    !.graduated = w.graduated,
                    !.minter = IF w.minter = CURVE THEN c ELSE w.minter,
                    !.tradingEnabled = w.tradingEnabled,
                    !.totalSupply = w.totalSupply, !.balanceOf = w.balanceOf,
                    !.allowance = w.allowance,
                    !.routerAllowance = w.routerAllowance,
                    !.graduatedEvents = w.graduatedEvents,
                    !.venueCalls = w.venueCalls,
                    !.liquidityMints = w.liquidityMints],
        !.balance =
          [a \in FactoryAccounts |->
             IF a = c THEN w.eth[CURVE]
             ELSE IF a = cfg.treasury THEN w.eth[TREASURY]
             ELSE IF a = cfg.traderJoeRouter THEN w.eth[ROUTER]
             ELSE IF a \in Users THEN w.eth[a]
             ELSE f.balance[a]]]

\* BondingCurve.buyTokensFor: payable, notGraduated, nonReentrant, then the
\* sender must be the factory; the value sent is credited to the curve
buyTokensFor(w, caller, recipient, value, minTokensOut, venueOk) ==
  IF w.graduated THEN Rejected(w, "Token graduated")
  ELSE IF caller # FACTORY THEN Rejected(w, "Only factory")
  ELSE buyTokensForInternal(
         w, [w EXCEPT !.eth[CURVE] = @ + value],
         recipient, value, minTokensOut, venueOk)

\* BondingCurve.forceGraduation called by `caller`: onlyFactory
forceGraduationBy(w, caller, venueOk) ==
  IF caller # FACTORY THEN [err |-> "Only factory", w |-> w, venue |-> "none"]
  ELSE forceGraduation(w, venueOk)

\* BondingCurve.emergencyWithdraw called by `caller`: onlyFactory
emergencyWithdrawBy(w, caller) ==
  IF caller # FACTORY THEN [err |-> "Only factory", w |-> w]
  ELSE emergencyWithdraw(w)

\* BondingCurve.setTraderJoeRouter called by `caller` on the curve cv
setTraderJoeRouter(cv, caller, _router) ==
  IF caller # cv.factory THEN [err |-> "Only factory", cv |-> cv]
  ELSE IF _router = ZERO THEN [err |-> "Invalid router", cv |-> cv]
  ELSE [err |-> "ok", cv |-> [cv EXCEPT !.traderJoeRouter = _router]]

\* a call of the factory that reverts
FactoryRejected(f, e) ==
  [err |-> e, f |-> f, out |-> 0, net |-> 0, fee |-> 0, venue |-> "none",
   token |-> ZERO]

\* a call of the factory that returns
FactoryDone(f) ==
  [err |-> "ok", f |-> f, out |-> 0, net |-> 0, fee |-> 0, venue |-> "none",
   token |-> ZERO]

\* payable(to).transfer(amount) issued by the factory
factoryPay(f, to, amount, accepts) ==
  IF f.balance[FACTORY] < amount \/ ~accepts
  THEN [err |-> "Transfer failed", f |-> f]
  ELSE [err |-> "ok",
        f |-> [f EXCEPT !.balance[FACTORY] = @ - amount,
                        !.balance[to] = @ + amount]]

\* the two contracts of a pair exist at their addresses
deployPair(f, c, pair) ==
  [f EXCEPT !.curves = @ @@ (c :> pair)]

\* mutant: the pair is listed but not indexed
registerPairUnindexed(f, token, c) ==
  [f EXCEPT !.allTokens = Append(@, token)]

\* createTokenWithSocials, "Update factory state"
registerPair(f, token, c) ==
  [f EXCEPT !.allTokens = Append(@, token),
            !.tokenToBondingCurve[token] = c,
            !.isValidToken[token] = TRUE]

\* mutant: the result of the initial buy is not checked
initialBuyUnchecked(f, c, sender, initialBuyAmount, venueOk, accepts) ==
  IF initialBuyAmount > 0
  THEN LET f1 == [f EXCEPT !.balance[FACTORY] = @ - initialBuyAmount]
           r == buyTokensFor(curveView(f1, c, accepts), FACTORY, sender,
                             initialBuyAmount, 0, venueOk)
       IN IF f.balance[FACTORY] < initialBuyAmount \/ r.err # "ok"
          THEN FactoryDone(f)
          ELSE [err |-> "ok", f |-> curveStore(f1, c, r.w), out |-> r.out,
                net |-> r.net, fee |-> r.fee, venue |-> r.venue, token |-> ZERO]
  ELSE FactoryDone(f)

\* createTokenWithSocials, "Process initial token purchase if requested":
\* bondingCurve.call{value: initialBuyAmount}(buyTokensFor(msg.sender, 0))
initialBuy(f, c, sender, initialBuyAmount, venueOk, accepts) ==
  IF initialBuyAmount > 0
  THEN LET f1 == [f EXCEPT !.balance[FACTORY] = @ - initialBuyAmount]
           r == buyTokensFor(curveView(f1, c, accepts), FACTORY, sender,
                             initialBuyAmount, 0, venueOk)
       IN IF f.balance[FACTORY] < initialBuyAmount \/ r.err # "ok"
          THEN FactoryRejected(f, "Initial buy failed")
          ELSE [err |-> "ok", f |-> curveStore(f1, c, r.w), out |-> r.out,
                net |-> r.net, fee |-> r.fee, venue |-> r.venue, token |-> ZERO]
  ELSE FactoryDone(f)

\* TokenFactory.createTokenWithSocials (createToken passes empty links to it)
createTokenWithSocials(f, sender, value, name, symbol, initialBuyAmount, venueOk, accepts) ==
  LET f0 == [f EXCEPT !.balance[sender] = @ - value,
                      !.balance[FACTORY] = @ + value]
      n == Len(f.allTokens) + 1
      token == TokenAddrs[n]
      c == CurveAddrs[n]
      sm == setMinter(newPair(token, f.treasury, f.factoryPlatformFeePercent), c)
      f1 == registerPair(deployPair(f0, c, sm.l), token, c)
      ib == initialBuy(f1, c, sender, initialBuyAmount, venueOk, accepts)
      pay == IF f.tokenCreationFee > 0
             THEN factoryPay(ib.f, f.treasury, f.tokenCreationFee, accepts)
             ELSE [err |-> "ok", f |-> ib.f]
  IN IF ~(value >= f.tokenCreationFee + initialBuyAmount)
     THEN FactoryRejected(f, "Insufficient funds")
     ELSE IF name = "" THEN FactoryRejected(f, "Name required")
     ELSE IF symbol = "" THEN FactoryRejected(f, "Symbol required")
     ELSE IF sm.err # "ok" THEN FactoryRejected(f, sm.err)
     ELSE IF ib.err # "ok" THEN FactoryRejected(f, ib.err)
     ELSE IF pay.err # "ok" THEN FactoryRejected(f, pay.err)
     ELSE [ib EXCEPT !.f = pay.f, !.token = token]

\* TokenFactory.setTreasury
setTreasury(f, caller, _treasury) ==
  IF caller # f.owner THEN FactoryRejected(f, "Not owner")
  ELSE IF _treasury = ZERO THEN FactoryRejected(f, "Invalid treasury")
  ELSE FactoryDone([f EXCEPT !.treasury = _treasury])

\* mutant: setPlatformFee accepts any fee
setPlatformFeeUncapped(f, caller, _feePercent) ==
  IF caller # f.owner THEN FactoryRejected(f, "Not owner")
  ELSE FactoryDone([f EXCEPT !.factoryPlatformFeePercent = _feePercent])

\* TokenFactory.setPlatformFee
setPlatformFee(f, caller, _feePercent) ==
  IF caller # f.owner THEN FactoryRejected(f, "Not owner")
  ELSE IF ~(_feePercent <= MAX_PLATFORM_FEE) THEN FactoryRejected(f, "Fee too high")
  ELSE FactoryDone([f EXCEPT !.factoryPlatformFeePercent = _feePercent])

\* mutant: setCreationFee lacks the onlyOwner modifier
setCreationFeeUnguarded(f, caller, _fee) ==
  FactoryDone([f EXCEPT !.tokenCreationFee = _fee])

\* TokenFactory.setCreationFee
setCreationFee(f, caller, _fee) ==
  IF caller # f.owner THEN FactoryRejected(f, "Not owner")
  ELSE FactoryDone([f EXCEPT !.tokenCreationFee = _fee])

\* TokenFactory.transferOwnership
transferOwnership(f, caller, newOwner) ==
  IF caller # f.owner THEN FactoryRejected(f, "Not owner")
  ELSE IF newOwner = ZERO THEN FactoryRejected(f, "Invalid address")
  ELSE FactoryDone([f EXCEPT !.owner = newOwner])

\* TokenFactory.updateTokenRouter
updateTokenRouter(f, caller, token, newRouter) ==
  IF caller # f.owner THEN FactoryRejected(f, "Not owner")
  ELSE IF ~f.isValidToken[token] THEN FactoryRejected(f, "Invalid token")
  ELSE IF f.tokenToBondingCurve[token] = ZERO
  THEN FactoryRejected(f, "No bonding curve")
  ELSE LET c == f.tokenToBondingCurve[token]
           r == setTraderJoeRouter(f.curves[c], FACTORY, newRouter)
       IN IF r.err # "ok" THEN FactoryRejected(f, "Router update failed")
          ELSE FactoryDone([f EXCEPT !.curves[c] = r.cv])

\* TokenFactory.emergencyGraduateToken
emergencyGraduateToken(f, caller, token, venueOk, accepts) ==
  IF caller # f.owner THEN FactoryRejected(f, "Not owner")
  ELSE IF ~f.isValidToken[token] THEN FactoryRejected(f, "Invalid token")
  ELSE IF f.tokenToBondingCurve[token] = ZERO
  THEN FactoryRejected(f, "No bonding curve")
  ELSE LET c == f.tokenToBondingCurve[token]
           r == forceGraduationBy(curveView(f, c, accepts), FACTORY, venueOk)
       IN IF r.err # "ok" THEN FactoryRejected(f, "Graduation failed")
          ELSE [FactoryDone(curveStore(f, c, r.w)) EXCEPT !.venue = r.venue]

\* TokenFactory.emergencyWithdrawFromCurve
emergencyWithdrawFromCurve(f, caller, token, accepts) ==
  IF caller # f.owner THEN FactoryRejected(f, "Not owner")
  ELSE IF ~f.isValidToken[token] THEN FactoryRejected(f, "Invalid token")
  ELSE IF f.tokenToBondingCurve[token] = ZERO
  THEN FactoryRejected(f, "No bonding curve")
  ELSE LET c == f.tokenToBondingCurve[token]
           r == emergencyWithdrawBy(curveView(f, c, accepts), FACTORY)
       IN IF r.err # "ok" THEN FactoryRejected(f, "Emergency withdraw failed")
          ELSE FactoryDone(curveStore(f, c, r.w))

\* TokenFactory.receive: FAIR sent to the factory is forwarded to the treasury
factoryReceive(f, sender, value, accepts) ==
  LET f0 == [f EXCEPT !.balance[sender] = @ - value,
                      !.balance[FACTORY] = @ + value]
      pay == IF value > 0 THEN factoryPay(f0, f.treasury, value, accepts)
             ELSE [err |-> "ok", f |-> f0]
  IN IF pay.err # "ok" THEN FactoryRejected(f, pay.err)
     ELSE FactoryDone(pay.f)

\* ------------------------------------------------- the factory's state machine
\* callers and arguments of the factory's and the curves' functions
FactoryUsers == {"alice"}
AdminCallers == {OWNER, "bob"}
NewOwners == {ZERO, "bob"}
TreasuryChoices == {ZERO, TREASURY2}
PlatformFees == {MAX_PLATFORM_FEE, MAX_PLATFORM_FEE + 1}
CreationFees == {0}
RouterChoices == {ZERO, ROUTER2}
InitialBuys == {0, 4100}
Names == {"", "TKN"}
FactoryBuyValues == {4100}
ReceiveValues == {0, 5}

\* the value sent with a create: short by one, exact, or with an excess
CreateValues(initialBuyAmount) ==
  {v \in {tokenCreationFee + initialBuyAmount - 1,
          tokenCreationFee + initialBuyAmount,
          tokenCreationFee + initialBuyAmount + 5} : v >= 0}

\* token addresses passed to the owner's functions: the listed ones and one
\* that is not listed
TokenArgs == {TokenAddrs[i] : i \in 1..(Len(allTokens) + 1)}

\* install a factory world as the next state and record the call (a reverted
\* call by its function and error only); the single curve and the bare ledger
\* of the other specifications stay as they are
FactoryStep(kind, caller, target, arg, min, r) ==
  /\ r.err = "ok" => nOps < MaxFactoryOps
  /\ nOps' = IF r.err = "ok" THEN nOps + 1 ELSE nOps
  /\ owner' = r.f.owner
  /\ treasury' = r.f.treasury
  /\ factoryPlatformFeePercent' = r.f.factoryPlatformFeePercent
  /\ tokenCreationFee' = r.f.tokenCreationFee
  /\ allTokens' = r.f.allTokens
  /\ tokenToBondingCurve' = r.f.tokenToBondingCurve
  /\ isValidToken' = r.f.isValidToken
  /\ curves' = r.f.curves
  /\ balance' = r.f.balance
  /\ lastOp' = IF r.err = "ok"
               THEN [NoOp EXCEPT !.kind = kind, !.who = caller, !.to = target,
                                 !.arg = arg, !.min = min, !.out = r.out,
                                 !.net = r.net, !.fee = r.fee, !.venue = r.venue]
               ELSE [NoOp EXCEPT !.kind = kind, !.err = r.err]
  /\ UNCHANGED <<tokensSold, FAIRRaised, graduated, platformFeePercent, minter,
                 tradingEnabled, totalSupply, balanceOf, allowance,
                 routerAllowance, eth, elapsed, graduatedEvents, venueCalls,
                 liquidityMints, ledgerVars, guardVars>>

\* the result of a call to curve c, as a result of the factory's world
OnCurve(c, r) ==
  [err |-> r.err,
   f |-> IF r.err = "ok" THEN curveStore(FactoryWorld, c, r.w) ELSE FactoryWorld,
   out |-> r.out, net |-> r.net, fee |-> r.fee, venue |-> r.venue,
   token |-> ZERO]

CreateToken(sender, value, name, symbol, initialBuyAmount, venueOk, accepts) ==
  /\ value <= balance[sender]
  /\ Len(allTokens) < MaxTokens
  /\ LET r == createTokenWithSocials(FactoryWorld, sender, value, name, symbol,
                                     initialBuyAmount, venueOk, accepts)
     IN FactoryStep("create", sender, r.token, value, initialBuyAmount, r)

SetTreasury(caller, t) ==
  FactoryStep("setTreasury", caller, t, 0, 0,
              setTreasury(FactoryWorld, caller, t))

SetPlatformFee(caller, p) ==
  FactoryStep("setPlatformFee", caller, "", p, 0,
              setPlatformFee(FactoryWorld, caller, p))

SetCreationFee(caller, x) ==
  FactoryStep("setCreationFee", caller, "", x, 0,
              setCreationFee(FactoryWorld, caller, x))

TransferOwnership(caller, n) ==
  FactoryStep("transferOwnership", caller, n, 0, 0,
              transferOwnership(FactoryWorld, caller, n))

UpdateTokenRouter(caller, token, newRouter) ==
  FactoryStep("updateTokenRouter", caller, token, 0, 0,
              updateTokenRouter(FactoryWorld, caller, token, newRouter))

EmergencyGraduateToken(caller, token, venueOk, accepts) ==
  FactoryStep("emergencyGraduateToken", caller, token, 0, 0,
              emergencyGraduateToken(FactoryWorld, caller, token, venueOk,
                                     accepts))

EmergencyWithdrawFromCurve(caller, token, accepts) ==
  FactoryStep("emergencyWithdrawFromCurve", caller, token, 0, 0,
              emergencyWithdrawFromCurve(FactoryWorld, caller, token, accepts))

FactoryReceive(sender, value, accepts) ==
  /\ value <= balance[sender]
  /\ FactoryStep("receive", sender, "", value, 0,
                 factoryReceive(FactoryWorld, sender, value, accepts))

\* buyTokens on curve c
BuyOn(c, u, value, venueOk, accepts) ==
  /\ value <= balance[u]
  /\ LET r == buyTokens(curveView(FactoryWorld, c, accepts), u, value, 0, venueOk)
     IN FactoryStep("buyOn", u, c, value, 0, OnCurve(c, r))

\* sellTokens on curve c
SellOn(c, u, tokenAmount, accepts) ==
  LET r == sellTokens(curveView(FactoryWorld, c, accepts), u, tokenAmount, 0,
                      elapsed)
  IN FactoryStep("sellOn", u, c, tokenAmount, 0, OnCurve(c, r))

\* ERC20.approve(c, UINT_MAX) on c's token by a holder; it is not counted
\* against MaxFactoryOps
ApproveOn(c, u) ==
  /\ curves[c].balanceOf[u] > 0
  /\ curves[c].allowance[u] # UINT_MAX
  /\ curves' = [curves EXCEPT ![c].allowance[u] = UINT_MAX]
  /\ lastOp' = [NoOp EXCEPT !.kind = "approveOn", !.who = u, !.to = c,
                            !.arg = UINT_MAX]
  /\ UNCHANGED <<tokensSold, FAIRRaised, graduated, platformFeePercent, minter,
                 tradingEnabled, totalSupply, balanceOf, allowance,
                 routerAllowance, eth, elapsed, graduatedEvents, venueCalls,
                 liquidityMints, nOps, ledgerVars, guardVars, owner, treasury,
                 factoryPlatformFeePercent, tokenCreationFee, allTokens,
                 tokenToBondingCurve, isValidToken, balance>>

\* the curve's factory-only functions called by an account directly
DirectBuyTokensFor(c, caller, value, venueOk, accepts) ==
  /\ value <= balance[caller]
  /\ LET r == buyTokensFor(curveView(FactoryWorld, c, accepts), caller, caller,
                           value, 0, venueOk)
     IN FactoryStep("curve.buyTokensFor", caller, c, value, 0, OnCurve(c, r))

DirectForceGraduation(c, caller, venueOk, accepts) ==
  LET r == forceGraduationBy(curveView(FactoryWorld, c, accepts), caller, venueOk)
      rr == [err |-> r.err, w |-> r.w, out |-> 0, net |-> 0, fee |-> 0,
             venue |-> r.venue]
  IN FactoryStep("curve.forceGraduation", caller, c, 0, 0, OnCurve(c, rr))

DirectEmergencyWithdraw(c, caller, accepts) ==
  LET r == emergencyWithdrawBy(curveView(FactoryWorld, c, accepts), caller)
      rr == [err |-> r.err, w |-> r.w, out |-> 0, net |-> 0, fee |-> 0,
             venue |-> "none"]
  IN FactoryStep("curve.emergencyWithdraw", caller, c, 0, 0, OnCurve(c, rr))

DirectSetTraderJoeRouter(c, caller, newRouter) ==
  LET r == setTraderJoeRouter(curves[c], caller, newRouter)
  IN FactoryStep("curve.setTraderJoeRouter", caller, c, 0, 0,
                 IF r.err = "ok"
                 THEN FactoryDone([FactoryWorld EXCEPT !.curves[c] = r.cv])
                 ELSE FactoryRejected(FactoryWorld, r.err))

\* the venue's answer is an input only of a call that can reach the venue
FactoryVenueOutcomes(c, value) ==
  IF ~curves[c].graduated /\ curves[c].FAIRRaised + value >= GRADUATION_THRESHOLD
  THEN BOOLEAN ELSE {TRUE}

\* accounts that call the curves' factory-only functions themselves
DirectCallers == FactoryUsers \cup AdminCallers

FactoryNext ==
  \/ \E u \in FactoryUsers, b \in InitialBuys, nm \in Names, sy \in Names,
        acc \in BOOLEAN :
       \E v \in CreateValues(b) : CreateToken(u, v, nm, sy, b, TRUE, acc)
  \/ \E a \in AdminCallers, t \in TreasuryChoices : SetTreasury(a, t)
  \/ \E a \in AdminCallers, p \in PlatformFees : SetPlatformFee(a, p)
  \/ \E a \in AdminCallers, x \in CreationFees : SetCreationFee(a, x)
  \/ \E a \in AdminCallers, n \in NewOwners : TransferOwnership(a, n)
  \/ \E a \in AdminCallers, t \in TokenArgs, r \in RouterChoices :
       UpdateTokenRouter(a, t, r)
  \/ \E a \in AdminCallers, t \in TokenArgs, ok \in BOOLEAN, acc \in BOOLEAN :
       EmergencyGraduateToken(a, t, ok, acc)
  \/ \E a \in AdminCallers, t \in TokenArgs, acc \in BOOLEAN :
       EmergencyWithdrawFromCurve(a, t, acc)
  \/ \E u \in FactoryUsers, v \in ReceiveValues, acc \in BOOLEAN :
       FactoryReceive(u, v, acc)
  \/ \E c \in DOMAIN curves, u \in FactoryUsers, v \in FactoryBuyValues,
        acc \in BOOLEAN :
       \E ok \in FactoryVenueOutcomes(c, v) : BuyOn(c, u, v, ok, acc)
  \/ \E c \in DOMAIN curves, u \in FactoryUsers, acc \in BOOLEAN :
       SellOn(c, u, curves[c].balanceOf[u] \div 2, acc)
  \/ \E c \in DOMAIN curves, u \in FactoryUsers : ApproveOn(c, u)
  \/ \E c \in DOMAIN curves, u \in DirectCallers, v \in FactoryBuyValues :
       DirectBuyTokensFor(c, u, v, TRUE, TRUE)
  \/ \E c \in DOMAIN curves, u \in DirectCallers :
       DirectForceGraduation(c, u, TRUE, TRUE)
  \/ \E c \in DOMAIN curves, u \in DirectCallers :
       DirectEmergencyWithdraw(c, u, TRUE)
  \/ \E c \in DOMAIN curves, u \in DirectCallers, r \in RouterChoices :
       DirectSetTraderJoeRouter(c, u, r)

FactorySpec == Init /\ [][FactoryNext]_vars

\* ----------------------------------------------------------------- properties
\* venue calls that did not end in a graduation
VenueFailures == venueCalls - graduatedEvents

BuySucceeded == lastOp.kind = "buy" /\ lastOp.err = "ok"
SellSucceeded == lastOp.kind = "sell" /\ lastOp.err = "ok"

\* C1: tokensSold never exceeds GRADUATION_SUPPLY, and a buy whose curve
\* output exceeds the remaining supply is not refused for that: when it goes
\* through it mints exactly the remaining amount.
CapNeverExceeded ==
  /\ tokensSold <= GRADUATION_SUPPLY
  /\ \A u \in Users, v \in BuyValues, ok \in BOOLEAN :
       LET fee == (v * platformFeePercent) \div BPS
           r == buyTokens(World, u, v, 0, ok)
       IN (/\ ~graduated
           /\ v <= eth[u]
           /\ v - fee > 0
           /\ tokensSold < GRADUATION_SUPPLY
           /\ curveTokensOut(World, v - fee) > GRADUATION_SUPPLY - tokensSold)
          => /\ r.err # "Exceeds graduation supply"
             /\ r.err = "ok" =>
                  /\ r.out = GRADUATION_SUPPLY - tokensSold
                  /\ r.w.tokensSold = GRADUATION_SUPPLY

\* a buy went through whose curve output was larger than what it minted
CapClampedBuy ==
  /\ BuySucceeded
  /\ lastOp.venue = "failed"
  /\ tokensSold = GRADUATION_SUPPLY
  /\ curveTokensOut([tokensSold |-> tokensSold - lastOp.out,
                     FAIRRaised |-> FAIRRaised - lastOp.net], lastOp.net)
       > lastOp.out

\* C2: once graduated, the flag stays set and every buy or sell is rejected
\* with "Token graduated" and changes nothing.
GraduationIsTerminal ==
  [][graduated =>
       /\ graduated'
       /\ lastOp'.kind \in {"buy", "sell"} =>
            (lastOp'.err = "Token graduated" /\ World' = World)]_vars

CallAfterGraduation ==
  /\ graduated
  /\ lastOp.kind \in {"buy", "sell"}
  /\ lastOp.err = "Token graduated"

\* C3: selling back, right after a buy, exactly the tokens the buy minted
\* returns at most what the buy cost, before and after the sell fee.
RoundTripNeverProfitable ==
  (BuySucceeded /\ ~graduated) =>
    LET s == sellTokens(World, lastOp.who, lastOp.out, 0, elapsed)
    IN s.err = "ok" => (s.out <= lastOp.arg /\ s.net <= lastOp.arg)

\* C4: with the venue answering, a buy that brings FAIRRaised to the
\* threshold graduates within the call; a buy that does not reach the venue
\* leaves FAIRRaised below the threshold; and no state between operations is
\* at the threshold and not graduated unless a venue call has failed.
GraduationInsideBuy ==
  /\ (BuySucceeded /\ lastOp.venue = "ok") => graduated
  /\ (BuySucceeded /\ lastOp.venue = "none") => FAIRRaised < GRADUATION_THRESHOLD
  /\ VenueFailures = 0 => ~(~graduated /\ FAIRRaised >= GRADUATION_THRESHOLD)

BuyGraduated ==
  BuySucceeded /\ lastOp.venue = "ok" /\ graduated

\* C5: a curve graduates at most once; while no venue call has failed there
\* is one Graduated event, one liquidity mint and one venue call exactly when
\* the curve has graduated, and a graduated curve has FAIRRaised = 0.
GraduatedExactlyOnce ==
  /\ graduatedEvents <= 1
  /\ graduated <=> graduatedEvents = 1
  /\ graduated => FAIRRaised = 0
  /\ VenueFailures = 0 =>
       (liquidityMints = graduatedEvents /\ venueCalls = graduatedEvents)

GraduatedBySeveralBuys ==
  /\ BuySucceeded
  /\ graduated
  /\ nOps >= 2
  /\ VenueFailures = 0

\* no buy or sell made in this state is refused as graduated
GateOpen ==
  /\ \A u \in Users, v \in BuyValues :
       buyTokens(World, u, v, 0, FALSE).err # "Token graduated"
  /\ \A u \in Users :
       sellTokens(World, u, balanceOf[u], 0, elapsed).err # "Token graduated"

\* some buy made in this state goes through
SomeBuyAccepted ==
  \E u \in Users, v \in BuyValues, ok \in BOOLEAN :
    v <= eth[u] /\ buyTokens(World, u, v, 0, ok).err = "ok"

\* every buy made in this state is refused because the curve is sold out
EveryBuyCurveComplete ==
  \A u \in Users, v \in BuyValues, ok \in BOOLEAN :
    v > 0 => buyTokens(World, u, v, 0, ok).err = "Curve complete"

\* C6 (as amended): a buy whose graduation attempt failed at the venue goes
\* through: the buyer holds the minted tokens, tokensSold and FAIRRaised
\* include the buy, graduated is false and no buy or sell is refused as
\* graduated; buys are refused as "Curve complete" while tokensSold stays at
\* the cap.
FailedGraduationKeepsBuy ==
  [][(lastOp'.kind = "buy" /\ lastOp'.err = "ok" /\ lastOp'.venue = "failed") =>
       /\ ~graduated'
       /\ tokensSold' = tokensSold + lastOp'.out
       /\ FAIRRaised' = FAIRRaised + lastOp'.net
       /\ balanceOf'[lastOp'.who] = balanceOf[lastOp'.who] + lastOp'.out
       /\ GateOpen'
       /\ tokensSold' = GRADUATION_SUPPLY => EveryBuyCurveComplete']_vars

BuyWithFailedGraduation ==
  /\ BuySucceeded
  /\ lastOp.venue = "failed"
  /\ ~graduated
  /\ tokensSold = GRADUATION_SUPPLY

\* C6 (as claimed): after a buy whose graduation attempt failed at the venue
\* the curve is not graduated and still accepts buys and sells.
FailedGraduationStillAcceptsBuys ==
  (BuySucceeded /\ lastOp.venue = "failed") =>
    /\ ~graduated
    /\ balanceOf[lastOp.who] >= lastOp.out
    /\ GateOpen
    /\ SomeBuyAccepted

\* C7: tradingEnabled is true only if the curve has graduated.
TradingEnabledOnlyAfterGraduation ==
  tradingEnabled => graduated

\* C8: a rejected buy or sell leaves the whole world as it was.
RejectedCallChangesNothing ==
  [][(lastOp'.kind \in {"buy", "sell"} /\ lastOp'.err # "ok") =>
       World' = World]_vars

RejectedAfterTrading ==
  /\ lastOp.kind \in {"buy", "sell"}
  /\ lastOp.err = "Slippage exceeded"
  /\ tokensSold > 0

\* C9: on a curve that has not graduated, a sell of more tokens than
\* tokensSold is rejected with "Insufficient supply sold"; in every state it
\* is rejected and changes nothing.
OversizedSellRejected ==
  \A u \in Users, m \in MinFAIR, extra \in {1, GRADUATION_SUPPLY} :
    LET r == sellTokens(World, u, tokensSold + extra, m, elapsed)
    IN /\ r.err # "ok"
       /\ r.w = World
       /\ ~graduated => r.err = "Insufficient supply sold"

OversizedSellSeen ==
  /\ lastOp.kind = "sell"
  /\ lastOp.err = "Insufficient supply sold"
  /\ tokensSold > 0

\* C10: a buy that goes through credits the recipient with at least
\* minTokensOut, a sell that goes through pays the seller at least
\* minFAIROut net of the sell fee.
SlippageProtection ==
  [][/\ (lastOp'.kind = "buy" /\ lastOp'.err = "ok") =>
          /\ balanceOf'[lastOp'.who] - balanceOf[lastOp'.who] = lastOp'.out
          /\ lastOp'.out >= lastOp'.min
     /\ (lastOp'.kind = "sell" /\ lastOp'.err = "ok") =>
          /\ eth'[lastOp'.who] - eth[lastOp'.who] = lastOp'.net
          /\ lastOp'.net >= lastOp'.min]_vars

SellWithMinimumPaid ==
  SellSucceeded /\ lastOp.min > 0

\* C11: whenever a buy (a sell) goes through, the tokens it mints (the net
\* FAIR it pays the seller) are not less than, and in fact equal to, what
\* previewBuy (previewSell) returns for the same input in the state the call
\* was made in; the fees of the preview and of the real path coincide.
PreviewsNeverOverstate ==
  [][/\ (lastOp'.kind = "buy" /\ lastOp'.err = "ok") =>
          LET p == previewBuy(World, lastOp'.arg)
          IN /\ lastOp'.out >= p.tokensOut
             /\ lastOp'.out = p.tokensOut
             /\ lastOp'.fee = p.platformFee
     /\ (lastOp'.kind = "sell" /\ lastOp'.err = "ok") =>
          LET p == previewSell(World, lastOp'.arg, elapsed)
          IN /\ lastOp'.net >= p.netFAIROut
             /\ lastOp'.net = p.netFAIROut
             /\ lastOp'.out = p.FAIROut
             /\ lastOp'.fee = p.feeAmount]_vars

\* a sell went through that paid a sell fee, after a buy that paid a
\* platform fee
PreviewedTradesExecuted ==
  /\ SellSucceeded
  /\ lastOp.fee > 0
  /\ lastOp.net > 0
  /\ eth[TREASURY] > lastOp.fee

\* C12: the sell fee depends on the elapsed time only; it is INITIAL_SELL_FEE
\* at elapsed = 0, stays within [FINAL_SELL_FEE, INITIAL_SELL_FEE], is
\* FINAL_SELL_FEE from ANTI_DUMP_DURATION on, and at no later time is it
\* higher than at an earlier time.
SellFeeSchedule ==
  lastOp.kind = "getCurrentSellFee" =>
    /\ lastOp.out = getCurrentSellFee(lastOp.arg)
    /\ lastOp.out >= FINAL_SELL_FEE
    /\ lastOp.out <= INITIAL_SELL_FEE
    /\ lastOp.arg = 0 => lastOp.out = INITIAL_SELL_FEE
    /\ lastOp.arg >= ANTI_DUMP_DURATION => lastOp.out = FINAL_SELL_FEE
    /\ \A t \in lastOp.arg .. MaxElapsed : getCurrentSellFee(t) <= lastOp.out

\* the fee was queried after the decay period had ended
SellFeeQueriedAfterDecay ==
  /\ lastOp.kind = "getCurrentSellFee"
  /\ lastOp.arg > ANTI_DUMP_DURATION
  /\ lastOp.out = FINAL_SELL_FEE

\* C13: totalSupply grows only in a mint call made by the minter, and a mint
\* call made by any other account, also while no minter is set, is rejected
\* with "Not minter" and changes nothing.
OnlyMinterMints ==
  [][/\ totalSupply' > totalSupply =>
          /\ lastOp'.kind = "mint"
          /\ lastOp'.err = "ok"
          /\ lastOp'.who = minter
          /\ minter # ZERO
          /\ totalSupply' = totalSupply + lastOp'.arg
     /\ (lastOp'.kind = "mint" /\ lastOp'.who # minter) =>
          /\ lastOp'.err = "Not minter"
          /\ Ledger' = Ledger]_vars

\* a mint by an account that is not the minter was rejected on a token whose
\* minter has minted
MintRejected ==
  /\ lastOp.kind = "mint"
  /\ lastOp.err = "Not minter"
  /\ lastOp.who # minter
  /\ totalSupply > 0

\* C14: after a setMinter call that went through, whatever its argument, the
\* next setMinter call is rejected with "Minter already set" and the minter
\* does not change.
MinterBoundOnce ==
  [][(lastOp.kind = "setMinter" /\ lastOp.err = "ok"
        /\ lastOp'.kind = "setMinter") =>
       (lastOp'.err = "Minter already set" /\ minter' = minter)]_vars

\* C15: tradingEnabled starts false; it changes only from false to true, only
\* in an enableTrading call made by the minter, and once true it stays true.
TradingEnabledMonotonic ==
  /\ ~tradingEnabled
  /\ [][/\ tradingEnabled => tradingEnabled'
        /\ tradingEnabled' # tradingEnabled =>
             /\ lastOp'.kind = "enableTrading"
             /\ lastOp'.err = "ok"
             /\ lastOp'.who = minter
             /\ minter # ZERO
        /\ (lastOp'.kind = "enableTrading" /\ lastOp'.who # minter) =>
             /\ lastOp'.err = "Not minter"
             /\ Ledger' = Ledger]_vars

\* trading is enabled and the token has been used since: a holder other than
\* the minter burned tokens
TradingStaysEnabled ==
  /\ tradingEnabled
  /\ lastOp.kind = "burn"
  /\ lastOp.err = "ok"
  /\ lastOp.who # minter
  /\ lastOp.arg > 0

\* C16: while tradingEnabled is false every transfer, direct or through an
\* allowance, between two accounts neither of which is the minter is rejected
\* and changes nothing, with "Trading not enabled" unless the allowance check
\* that precedes it has already failed; mints, burns and transfers from or to
\* the minter are never refused by the gate, nor is any transfer once
\* tradingEnabled is true: they go through when balance and allowance suffice.
TransferGate ==
  /\ \A from \in LedgerCallers, to \in LedgerCallers, a \in LedgerAmounts :
       LET blocked == ~tradingEnabled /\ from # minter /\ to # minter
           funded == balanceOf[from] >= a
           t == transfer(Ledger, from, to, a)
       IN /\ blocked => (t.err = "Trading not enabled" /\ t.l = Ledger)
          /\ ~blocked => t.err # "Trading not enabled"
          /\ (~blocked /\ funded) => t.err = "ok"
          /\ \A sp \in LedgerCallers :
               LET allowed == \/ spenderAllowance[from][sp] = UINT_MAX
                              \/ spenderAllowance[from][sp] >= a
                   tf == transferFrom(Ledger, sp, from, to, a)
               IN /\ blocked => (tf.err # "ok" /\ tf.l = Ledger)
                  /\ (blocked /\ allowed) => tf.err = "Trading not enabled"
                  /\ ~blocked => tf.err # "Trading not enabled"
                  /\ (~blocked /\ allowed /\ funded) => tf.err = "ok"
  /\ \A c \in LedgerCallers, a \in LedgerAmounts :
       /\ \A to \in LedgerCallers :
            tokenMint(Ledger, c, to, a).err = IF c = minter THEN "ok" ELSE "Not minter"
       /\ burn(Ledger, c, a).err # "Trading not enabled"
       /\ balanceOf[c] >= a => burn(Ledger, c, a).err = "ok"
       /\ \A sp \in LedgerCallers :
            burnFrom(Ledger, sp, c, a).err # "Trading not enabled"

\* a transfer through an allowance was refused by the gate while a holder
\* other than the minter had tokens
GatedTransferRejected ==
  /\ ~tradingEnabled
  /\ minter # ZERO
  /\ lastOp.kind = "transferFrom"
  /\ lastOp.err = "Trading not enabled"
  /\ \E a \in LedgerCallers \ {minter} : balanceOf[a] > 0

\* ------------------------------------------------------ properties, the factory
\* the address the next created token and its curve get
NextToken == TokenAddrs[Len(allTokens) + 1]
NextCurve == CurveAddrs[Len(allTokens) + 1]

CreateSucceeded == lastOp.kind = "create" /\ lastOp.err = "ok"

\* a curve on which nothing has been bought, for the curve math
FreshCurve == [tokensSold |-> 0, FAIRRaised |-> 0]

\* in every state, a create whose value is short of tokenCreationFee +
\* initialBuyAmount is rejected with "Insufficient funds", a create whose
\* initial buy cannot pay its platform fee is rejected with "Initial buy
\* failed", and a rejected create leaves the factory's world as it was
CreateRejections ==
  \A u \in FactoryUsers, b \in InitialBuys, nm \in Names, sy \in Names,
     acc \in BOOLEAN :
    \A v \in CreateValues(b) :
      LET r == createTokenWithSocials(FactoryWorld, u, v, nm, sy, b, TRUE, acc)
          buyFee == (b * factoryPlatformFeePercent) \div BPS
      IN /\ v < tokenCreationFee + b => r.err = "Insufficient funds"
         /\ r.err = "ok" => v >= tokenCreationFee + b
         /\ r.err # "ok" => r.f = FactoryWorld
         /\ (v >= tokenCreationFee + b /\ nm # "" /\ sy # "" /\ buyFee > 0
             /\ ~acc) =>
              r.err = "Initial buy failed"

\* a step of createTokenWithSocials: rejected, it changes nothing; returned,
\* it has listed one new token with its curve, left every other curve alone,
\* made the curve the token's minter, paid tokenCreationFee to the treasury
\* and bought once for the creator when initialBuyAmount > 0
CreateStep ==
  lastOp'.kind = "create" =>
    IF lastOp'.err # "ok" THEN FactoryWorld' = FactoryWorld
    ELSE
      LET u == lastOp'.who
          v == lastOp'.arg
          b == lastOp'.min
          token == NextToken
          c == NextCurve
          buyFee == (b * factoryPlatformFeePercent) \div BPS
          out == calculateTokensOut(FreshCurve, b - buyFee)
      IN /\ v >= tokenCreationFee + b
         /\ lastOp'.to = token
         /\ ~isValidToken[token]
         /\ c \notin DOMAIN curves
         /\ allTokens' = Append(allTokens, token)
         /\ isValidToken' = [isValidToken EXCEPT ![token] = TRUE]
         /\ tokenToBondingCurve' = [tokenToBondingCurve EXCEPT ![token] = c]
         /\ DOMAIN curves' = DOMAIN curves \cup {c}
         /\ \A d \in DOMAIN curves : curves'[d] = curves[d]
         /\ curves'[c].token = token
         /\ curves'[c].minter = c
         /\ curves'[c].factory = FACTORY
         /\ balance'[u] = balance[u] - v
         /\ balance'[treasury] = balance[treasury] + tokenCreationFee + buyFee
         /\ balance'[c] = b - buyFee
         /\ lastOp'.fee = buyFee
         /\ lastOp'.out = (IF b > 0 THEN out ELSE 0)
         /\ b > 0 => out > 0
         /\ curves'[c].tokensSold = lastOp'.out
         /\ curves'[c].totalSupply = lastOp'.out
         /\ curves'[c].FAIRRaised = b - buyFee
         /\ curves'[c].balanceOf =
              [a \in Accounts |-> IF a = u THEN lastOp'.out ELSE 0]

\* C17: createTokenWithSocials is rejected, registering nothing, unless the
\* value sent is at least tokenCreationFee + initialBuyAmount; when it returns,
\* exactly one new token with its curve is registered, the curve is the
\* token's minter, the treasury has received tokenCreationFee (and the initial
\* buy's platform fee), and one buy of initialBuyAmount has credited the
\* creator when initialBuyAmount > 0 and none when it is 0; a create whose
\* initial buy fails changes nothing.
CreateRegistersOnePair ==
  /\ []CreateRejections
  /\ [][CreateStep]_vars

\* a create with an initial buy returned: the creator holds the tokens bought
\* and the treasury holds the creation fee and the buy's platform fee
CreatedWithInitialBuy ==
  /\ CreateSucceeded
  /\ lastOp.min > 0
  /\ lastOp.out > 0
  /\ lastOp.fee > 0
  /\ curves[tokenToBondingCurve[lastOp.to]].balanceOf[lastOp.who] = lastOp.out

\* a create was rejected because its initial buy failed
CreateRolledBack ==
  /\ lastOp.kind = "create"
  /\ lastOp.err = "Initial buy failed"

\* the tokens in allTokens
ListedTokens == {allTokens[i] : i \in DOMAIN allTokens}

\* the list and the two maps agree: no token is listed twice, isValidToken
\* holds exactly for the listed tokens, and tokenToBondingCurve of a listed
\* token is a deployed curve constructed for that token
RegistryConsistent ==
  /\ \A i, j \in DOMAIN allTokens : allTokens[i] = allTokens[j] => i = j
  /\ \A t \in TokenSet : isValidToken[t] <=> t \in ListedTokens
  /\ \A t \in ListedTokens :
       /\ tokenToBondingCurve[t] \in DOMAIN curves
       /\ curves[tokenToBondingCurve[t]].token = t
  /\ \A t, t2 \in ListedTokens :
       tokenToBondingCurve[t] = tokenToBondingCurve[t2] => t = t2

\* a step keeps every entry of the list in its place, adds at most one at the
\* end and only in a create that returned, and keeps the curve of every
\* listed token
RegistryAppendOnly ==
  /\ Len(allTokens') >= Len(allTokens)
  /\ Len(allTokens') <= Len(allTokens) + 1
  /\ SubSeq(allTokens', 1, Len(allTokens)) = allTokens
  /\ Len(allTokens') > Len(allTokens) =>
       (lastOp'.kind = "create" /\ lastOp'.err = "ok")
  /\ \A t \in ListedTokens :
       /\ tokenToBondingCurve'[t] = tokenToBondingCurve[t]
       /\ curves'[tokenToBondingCurve[t]].token = t

\* C18: allTokens is append-only and consistent with the maps: tokens are
\* added only at the end, in creation order, and never changed or removed;
\* a token is in the list exactly when isValidToken holds for it; and
\* tokenToBondingCurve of a listed token is the curve created with it and
\* never changes.
RegistryListAppendOnly ==
  /\ []RegistryConsistent
  /\ [][RegistryAppendOnly]_vars

\* two tokens are listed in creation order and an owner's call has been made
\* on the factory since the second was created
TwoTokensListedThenAdmin ==
  /\ allTokens = <<TokenAddrs[1], TokenAddrs[2]>>
  /\ lastOp.kind \in {"setTreasury", "setPlatformFee", "updateTokenRouter",
                      "emergencyGraduateToken", "emergencyWithdrawFromCurve",
                      "transferOwnership"}
  /\ lastOp.err = "ok"

\* the accounts the factory's treasury can be
Treasuries == {TREASURY} \cup (TreasuryChoices \ {ZERO})

\* what the treasuries gained in a step of curve c that charged `fee`: c's
\* own treasury at least the fee (exactly the fee unless the step graduated
\* the curve and paid the team allocation), every other treasury nothing
FeePaidToOwnTreasury(c, fee) ==
  /\ balance'[curves[c].treasury] >= balance[curves[c].treasury] + fee
  /\ lastOp'.venue # "ok" =>
       balance'[curves[c].treasury] = balance[curves[c].treasury] + fee
  /\ \A t \in Treasuries \ {curves[c].treasury} : balance'[t] = balance[t]

\* a step leaves the treasury and platformFeePercent of every deployed curve
\* as they are; setTreasury and setPlatformFee touch no curve and no balance;
\* a buy charges the curve's own platformFeePercent and a buy or sell pays the
\* curve's own treasury; a create gives the new curve the factory's values
\* at that moment
ConfigStep ==
  /\ \A c \in DOMAIN curves :
       /\ c \in DOMAIN curves'
       /\ curves'[c].treasury = curves[c].treasury
       /\ curves'[c].platformFeePercent = curves[c].platformFeePercent
  /\ (lastOp'.kind \in {"setTreasury", "setPlatformFee"}) =>
       (curves' = curves /\ balance' = balance)
  /\ (lastOp'.kind = "buyOn" /\ lastOp'.err = "ok") =>
       /\ lastOp'.fee =
            (lastOp'.arg * curves[lastOp'.to].platformFeePercent) \div BPS
       /\ FeePaidToOwnTreasury(lastOp'.to, lastOp'.fee)
  /\ (lastOp'.kind = "sellOn" /\ lastOp'.err = "ok") =>
       FeePaidToOwnTreasury(lastOp'.to, lastOp'.fee)
  /\ (lastOp'.kind = "create" /\ lastOp'.err = "ok") =>
       /\ curves'[NextCurve].treasury = treasury
       /\ curves'[NextCurve].platformFeePercent = factoryPlatformFeePercent
       /\ treasury' = treasury
       /\ factoryPlatformFeePercent' = factoryPlatformFeePercent

\* C19: setPlatformFee and setTreasury are not retroactive: the
\* platformFeePercent and treasury of every curve already created never
\* change, its later buys and sells charge and pay by the values in force at
\* its creation, and only pairs created afterwards get the new values.
ConfigNotRetroactive == [][ConfigStep]_vars

\* a buy was charged on a curve whose fee and treasury are no longer the
\* factory's
BoughtUnderOldConfig ==
  /\ lastOp.kind = "buyOn"
  /\ lastOp.err = "ok"
  /\ lastOp.fee > 0
  /\ \/ curves[lastOp.to].platformFeePercent # factoryPlatformFeePercent
     \/ curves[lastOp.to].treasury # treasury

\* a sell paid its fee on a curve whose treasury is no longer the factory's
SoldUnderOldConfig ==
  /\ lastOp.kind = "sellOn"
  /\ lastOp.err = "ok"
  /\ lastOp.fee > 0
  /\ curves[lastOp.to].treasury # treasury

\* a pair created after setPlatformFee has the new fee, the older pair its own
CurvesDiffer ==
  /\ CreateSucceeded
  /\ \E c, d \in DOMAIN curves :
       /\ curves[c].platformFeePercent = DEFAULT_PLATFORM_FEE
       /\ curves[d].platformFeePercent = MAX_PLATFORM_FEE
       /\ factoryPlatformFeePercent = MAX_PLATFORM_FEE

\* the owner's functions of the factory, as recorded in lastOp
AdminKinds ==
  {"setTreasury", "setPlatformFee", "setCreationFee", "transferOwnership",
   "updateTokenRouter", "emergencyGraduateToken", "emergencyWithdrawFromCurve"}

\* accounts that try the owner's and the factory's functions: the users, the
\* deployer, the factory itself, the treasury and the deployed curves
OtherCallers == DirectCallers \cup {FACTORY, treasury} \cup DOMAIN curves

\* in every state, each of the owner's functions called by any account other
\* than the current owner, with any arguments, fails with "Not owner" and
\* leaves the factory's world as it was; forceGraduation, emergencyWithdraw
\* and setTraderJoeRouter called on a curve by any account other than the
\* factory fail with "Only factory" and leave the curve as it was
AdminRejections ==
  /\ \A caller \in OtherCallers \ {owner} :
       LET refused(r) == r.err = "Not owner" /\ r.f = FactoryWorld
       IN /\ \A t \in TreasuryChoices :
               refused(setTreasury(FactoryWorld, caller, t))
          /\ \A p \in PlatformFees :
               refused(setPlatformFee(FactoryWorld, caller, p))
          /\ \A x \in CreationFees \cup {tokenCreationFee + 1} :
               refused(setCreationFee(FactoryWorld, caller, x))
          /\ \A n \in NewOwners \cup {caller} :
               refused(transferOwnership(FactoryWorld, caller, n))
          /\ \A t \in TokenArgs :
               /\ \A r \in RouterChoices :
                    refused(updateTokenRouter(FactoryWorld, caller, t, r))
               /\ \A ok \in BOOLEAN, acc \in BOOLEAN :
                    refused(emergencyGraduateToken(FactoryWorld, caller, t, ok,
                                                   acc))
               /\ \A acc \in BOOLEAN :
                    refused(emergencyWithdrawFromCurve(FactoryWorld, caller, t,
                                                       acc))
  /\ \A c \in DOMAIN curves, caller \in OtherCallers \ {FACTORY} :
       LET w == curveView(FactoryWorld, c, TRUE)
           fg == forceGraduationBy(w, caller, TRUE)
           ew == emergencyWithdrawBy(w, caller)
       IN /\ fg.err = "Only factory" /\ fg.w = w
          /\ ew.err = "Only factory" /\ ew.w = w
          /\ \A r \in RouterChoices :
               LET sr == setTraderJoeRouter(curves[c], caller, r)
               IN sr.err = "Only factory" /\ sr.cv = curves[c]

\* a step of one of the owner's functions returned only for the owner and
\* otherwise changed nothing; a direct call of forceGraduation,
\* emergencyWithdraw or setTraderJoeRouter on a curve was refused and changed
\* nothing; owner, treasury, fees and routers change in no other step
AdminStep ==
  /\ lastOp'.kind \in AdminKinds =>
       IF lastOp'.err = "ok" THEN lastOp'.who = owner
       ELSE FactoryWorld' = FactoryWorld
  /\ lastOp'.kind \in {"curve.forceGraduation", "curve.emergencyWithdraw",
                       "curve.setTraderJoeRouter"} =>
       (lastOp'.err = "Only factory" /\ FactoryWorld' = FactoryWorld)
  /\ owner' # owner => lastOp'.kind = "transferOwnership"
  /\ treasury' # treasury => lastOp'.kind = "setTreasury"
  /\ factoryPlatformFeePercent' # factoryPlatformFeePercent =>
       lastOp'.kind = "setPlatformFee"
  /\ tokenCreationFee' # tokenCreationFee => lastOp'.kind = "setCreationFee"
  /\ \A c \in DOMAIN curves :
       curves'[c].traderJoeRouter # curves[c].traderJoeRouter =>
         lastOp'.kind = "updateTokenRouter"

\* C20: setTreasury, setPlatformFee, setCreationFee, emergencyGraduateToken,
\* emergencyWithdrawFromCurve, updateTokenRouter and transferOwnership called
\* by an account other than the factory's current owner are rejected and
\* change no state of the factory or of any curve; forceGraduation and
\* emergencyWithdraw called on a curve by anyone other than its factory are
\* rejected too.
AdminOnlyByOwner ==
  /\ []AdminRejections
  /\ [][AdminStep]_vars

\* the account that deployed the factory has handed ownership over and its
\* own call of an owner's function has been refused since, with a curve
\* deployed
FormerOwnerRefused ==
  /\ owner # OWNER
  /\ curves # <<>>
  /\ lastOp.kind \in AdminKinds
  /\ lastOp.err = "Not owner"

\* a call of forceGraduation on a curve by an account other than the factory
\* has been refused
DirectGraduationRefused ==
  /\ lastOp.kind = "curve.forceGraduation"
  /\ lastOp.err = "Only factory"

\* values sent with a buy, from the smallest amount up
ProbeValues == {1, 9, 10, 11, 4100}

\* in every state the factory's platformFeePercent and that of every curve it
\* deployed are at most MAX_PLATFORM_FEE, the owner's setPlatformFee above
\* that ceiling fails with "Fee too high" and changes nothing, and on every
\* curve what is left of a positive value after the platform fee is positive,
\* so no buy fails with "Insufficient after fees"
FeeCapped ==
  /\ factoryPlatformFeePercent <= MAX_PLATFORM_FEE
  /\ \A c \in DOMAIN curves : curves[c].platformFeePercent <= MAX_PLATFORM_FEE
  /\ \A p \in {MAX_PLATFORM_FEE + 1, BPS, UINT_MAX} :
       LET r == setPlatformFee(FactoryWorld, owner, p)
       IN r.err = "Fee too high" /\ r.f = FactoryWorld
  /\ LET r == setPlatformFee(FactoryWorld, owner, MAX_PLATFORM_FEE)
     IN r.err = "ok" /\ r.f.factoryPlatformFeePercent = MAX_PLATFORM_FEE
  /\ \A c \in DOMAIN curves, v \in ProbeValues :
       /\ v - (v * curves[c].platformFeePercent) \div BPS > 0
       /\ buyTokens(curveView(FactoryWorld, c, TRUE), "alice", v, 0, TRUE).err
            # "Insufficient after fees"

\* a step of setPlatformFee that was rejected changed nothing, one that
\* returned set a fee within the ceiling; a buy that returned added a
\* positive amount to the curve's reserve
FeeCapStep ==
  /\ lastOp'.kind = "setPlatformFee" =>
       IF lastOp'.err = "ok"
       THEN /\ lastOp'.arg <= MAX_PLATFORM_FEE
            /\ factoryPlatformFeePercent' = lastOp'.arg
       ELSE FactoryWorld' = FactoryWorld
  /\ (lastOp'.kind \in {"buyOn", "create"} /\ lastOp'.err = "ok"
      /\ lastOp'.out > 0) =>
       /\ lastOp'.net > 0
       /\ lastOp'.net = (IF lastOp'.kind = "create" THEN lastOp'.min
                         ELSE lastOp'.arg) - lastOp'.fee

\* C21: the platform fee is capped: setPlatformFee above 1000 is rejected
\* and leaves the fee unchanged, so in every reachable state the factory's
\* platformFeePercent and that of every curve it created are at most 1000,
\* and every buy of a positive value leaves a positive amount after the fee.
PlatformFeeCapped ==
  /\ []FeeCapped
  /\ [][FeeCapStep]_vars

\* a buy went through on a curve created with the fee at its ceiling
BoughtAtFeeCeiling ==
  /\ lastOp.kind = "buyOn"
  /\ lastOp.err = "ok"
  /\ curves[lastOp.to].platformFeePercent = MAX_PLATFORM_FEE
  /\ lastOp.fee * 10 = lastOp.arg
  /\ lastOp.net > 0

\* the owner's setPlatformFee above the ceiling was refused
FeeAboveCeilingRefused ==
  /\ lastOp.kind = "setPlatformFee"
  /\ lastOp.err = "Fee too high"

\* ------------------------------------------------- properties, the reserve
\* in every state FAIRRaised is not negative, and a sell whose curve output
\* is 0 or more than FAIRRaised is rejected and changes nothing
ReserveGuard ==
  /\ FAIRRaised >= 0
  /\ \A u \in Users, m \in MinFAIR :
       \A a \in SellAmounts(u) \cup {1, tokensSold} :
         LET FAIROut == calculateFAIROut(World, a)
             r == sellTokens(World, u, a, m, elapsed)
         IN (FAIROut = 0 \/ FAIROut > FAIRRaised) =>
              (r.err # "ok" /\ r.w = World)

\* a sell that returned took out of the reserve a positive amount no larger
\* than the reserve was
SellStep ==
  (lastOp'.kind = "sell" /\ lastOp'.err = "ok") =>
    /\ lastOp'.out > 0
    /\ lastOp'.out <= FAIRRaised
    /\ lastOp'.out = calculateFAIROut(World, lastOp'.arg)
    /\ FAIRRaised' = FAIRRaised - lastOp'.out
    /\ FAIRRaised' >= 0

\* C22: FAIRRaised is never negative: every sell that returns has FAIROut at
\* most FAIRRaised as it was before the sell, and a sell whose computed
\* FAIROut is 0 or exceeds FAIRRaised is rejected.
ReserveNeverNegative ==
  /\ []ReserveGuard
  /\ [][SellStep]_vars

\* a sell was paid out of a reserve that covered it
SoldWithinReserve ==
  /\ SellSucceeded
  /\ lastOp.out > 0
  /\ FAIRRaised >= 0

\* a sell was refused by the reserve guard
SellOverReserveRefused ==
  /\ lastOp.kind = "sell"
  /\ lastOp.err = "Insufficient reserves"

\* C23, as stated: tokensSold never decreases over buys, sells and graduation
\* attempts, its value in a later state being at least its value in every
\* earlier state.
TokensSoldNeverDecreases == [][tokensSold' >= tokensSold]_vars

\* a sell that returned lowered tokensSold by the amount sold and not below
\* 0; no other step lowered it
TokensSoldStep ==
  IF lastOp'.kind = "sell" /\ lastOp'.err = "ok"
  THEN /\ lastOp'.arg > 0
       /\ tokensSold' = tokensSold - lastOp'.arg
       /\ tokensSold' >= 0
  ELSE tokensSold' >= tokensSold

\* C23, amended: tokensSold never decreases over buys and graduation
\* attempts, forced or triggered by a buy, failed or not; a sell that returns
\* lowers it by exactly the amount sold, never below 0.
TokensSoldLoweredOnlyBySells ==
  /\ tokensSold = 0
  /\ [][TokensSoldStep]_vars

\* a sell returned and tokensSold is lower than the buys had brought it
TokensSoldReducedBySell ==
  /\ SellSucceeded
  /\ lastOp.arg > 0
  /\ tokensSold >= 0
  /\ tokensSold + lastOp.arg <= GRADUATION_SUPPLY

\* ------------------------------------------------ properties, the curve math
\* the constant product of the virtual-plus-real reserves
ProductK == (VIRTUAL_FAIR_RESERVES + FAIRRaised) * (VIRTUAL_TOKEN_RESERVES - tokensSold)

\* C24: buy rounding favours the protocol: the tokens minted by a buy never
\* exceed the exact constant-product amount, so that the product of
\* (VIRTUAL_FAIR_RESERVES + FAIRRaised) and (VIRTUAL_TOKEN_RESERVES -
\* tokensSold) never decreases across a buy.
BuyRoundingFavoursProtocol ==
  [][(lastOp'.kind = "buy" /\ lastOp'.err = "ok") =>
       /\ FAIRRaised' = FAIRRaised + lastOp'.net
       /\ tokensSold' = tokensSold + lastOp'.out
       /\ ProductK' >= ProductK]_vars

\* what the code does instead: a buy that the cap does not clamp mints the
\* exact amount rounded up to the next unit, so the product does not
\* increase and is short of its old value by less than one unit of token
\* reserve
BuyRoundsUp ==
  [][(lastOp'.kind = "buy" /\ lastOp'.err = "ok"
      /\ tokensSold' < GRADUATION_SUPPLY) =>
       /\ ProductK' <= ProductK
       /\ ProductK' + (VIRTUAL_FAIR_RESERVES + FAIRRaised') > ProductK]_vars

\* the curve has sold out without having raised the threshold: buys fail
\* with "Curve complete" and neither a buy nor forceGraduation can graduate it
SoldOutBelowThreshold ==
  /\ ~graduated
  /\ tokensSold = GRADUATION_SUPPLY
  /\ FAIRRaised < GRADUATION_THRESHOLD

\* C25: the curve cannot sell out without graduating: whenever a buy brings
\* tokensSold to GRADUATION_SUPPLY, FAIRRaised after it is at least
\* GRADUATION_THRESHOLD, and no reachable state has graduated = false,
\* tokensSold = GRADUATION_SUPPLY and FAIRRaised < GRADUATION_THRESHOLD.
CannotSellOutWithoutGraduating == ~SoldOutBelowThreshold

\* in a sold-out curve below the threshold every buy is refused and so is
\* forceGraduation: only a sell changes the curve
SoldOutIsStuck ==
  SoldOutBelowThreshold =>
    /\ \A u \in Users, v \in BuyValues, m \in MinTokens, ok \in BOOLEAN :
         LET r == buyTokens(World, u, v, m, ok)
         IN r.err \in {"Must send FAIR", "Curve complete"} /\ r.w = World
    /\ \A ok \in BOOLEAN :
         forceGraduation(World, ok).err = "Threshold not met"

\* ------------------------------------------- properties, failed graduations
\* C26: the token's supply stays consistent with the curve across failed
\* graduations: in every state with graduated = false, totalSupply is at most
\* tokensSold, also after one or several graduation attempts whose venue call
\* failed; no liquidity-allocation tokens remain outstanding after a
\* rolled-back graduation.
SupplyConsistentWhileTrading == ~graduated => totalSupply <= tokensSold

\* what the code keeps instead: while the curve has not graduated, the supply
\* is tokensSold plus LIQUIDITY_TOKENS for every graduation attempt whose
\* venue call failed, all of them held by the curve
SupplyCountsFailedGraduations ==
  ~graduated =>
    /\ totalSupply = tokensSold + LIQUIDITY_TOKENS * VenueFailures
    /\ balanceOf[CURVE] = LIQUIDITY_TOKENS * VenueFailures
    /\ liquidityMints = VenueFailures

\* ------------------------------------------------- calls in flight, re-entry
\* mutant: the nonReentrant modifier is missing
nonReentrantMissing(st) ==
  "ok"

\* the nonReentrant modifier of ReentrancyGuard, evaluated on entry
nonReentrant(st) ==
  IF st = ENTERED THEN "ReentrancyGuardReentrantCall" ELSE "ok"

\* buyTokens entered while the guard is in state st: notGraduated, then
\* nonReentrant, then the body
buyTokensEntered(w, st, sender, value, minTokensOut, venueOk) ==
  IF w.graduated THEN Rejected(w, "Token graduated")
  ELSE IF nonReentrant(st) # "ok" THEN Rejected(w, nonReentrant(st))
  ELSE buyTokens(w, sender, value, minTokensOut, venueOk)

\* sellTokens entered while the guard is in state st
sellTokensEntered(w, st, sender, tokenAmount, minFAIROut, t) ==
  IF w.graduated THEN Rejected(w, "Token graduated")
  ELSE IF nonReentrant(st) # "ok" THEN Rejected(w, nonReentrant(st))
  ELSE sellTokens(w, sender, tokenAmount, minFAIROut, t)

\* the external calls of _executeGraduation, each with the state the curve is
\* in when it makes the call: token.enableTrading, token.mint, token.approve,
\* the router's addLiquidityFAIR and, after the venue, the treasury's payment
graduationPoints(w, venueOk) ==
  LET w1 == [w EXCEPT !.graduated = TRUE]
      en == enableTrading(w1, CURVE)
      teamFAIR == w.FAIRRaised - LIQUIDITY_FAIR
      mt == tokenMint(en.l, CURVE, CURVE, LIQUIDITY_TOKENS)
      w2 == [mt.w EXCEPT !.liquidityMints = @ + 1]
      w3 == [w2 EXCEPT !.routerAllowance = LIQUIDITY_TOKENS,
                       !.venueCalls = @ + 1]
      vn == addLiquidityFAIR(w3, venueOk)
  IN <<[callee |-> "token", w |-> w1]>>
     \o (IF en.err = "ok" THEN <<[callee |-> "token", w |-> en.l]>> ELSE <<>>)
     \o (IF en.err = "ok" /\ mt.err = "ok"
         THEN <<[callee |-> "token", w |-> w2], [callee |-> ROUTER, w |-> w3]>>
         ELSE <<>>)
     \o (IF en.err = "ok" /\ mt.err = "ok" /\ vn.err = "ok" /\ teamFAIR > 0
         THEN <<[callee |-> TREASURY, w |-> vn.w]>>
         ELSE <<>>)

\* the external calls of a buy: token.mint, the treasury's fee, and the calls
\* of the graduation the buy triggers
buyPoints(w, sender, value, minTokensOut, venueOk) ==
  LET in == [w EXCEPT !.eth[sender] = @ - value, !.eth[CURVE] = @ + value]
      platformFee == (value * w.platformFeePercent) \div BPS
      buyAmount == value - platformFee
      tokensOut == calculateTokensOut(in, buyAmount)
      chk == buyChecks(in, value, buyAmount, tokensOut, minTokensOut)
      w1 == [in EXCEPT !.tokensSold = @ + tokensOut,
                       !.FAIRRaised = @ + buyAmount]
      mt == tokenMint(w1, CURVE, sender, tokensOut)
      pay == IF platformFee > 0
             THEN ethTransfer(mt.w, CURVE, TREASURY, platformFee)
             ELSE [err |-> "ok", w |-> mt.w]
  IN IF w.graduated \/ chk # "ok" THEN <<>>
     ELSE <<[callee |-> "token", w |-> w1]>>
          \o (IF mt.err = "ok" /\ platformFee > 0
              THEN <<[callee |-> TREASURY, w |-> mt.w]>> ELSE <<>>)
          \o (IF mt.err = "ok" /\ pay.err = "ok" /\ graduationDue(pay.w)
              THEN graduationPoints(pay.w, venueOk) ELSE <<>>)

\* the external calls of a sell: token.burnFrom, the seller's payment and the
\* treasury's fee
sellPoints(w, sender, tokenAmount, minFAIROut, t) ==
  LET FAIROut == calculateFAIROut(w, tokenAmount)
      feeAmount == (FAIROut * getCurrentSellFee(t)) \div BPS
      netFAIROut == FAIROut - feeAmount
      chk == sellChecks(w, sender, tokenAmount, minFAIROut, FAIROut, netFAIROut)
      w1 == sellBookkeeping(w, tokenAmount, FAIROut)
      bn == tokenBurnFrom(w1, sender, tokenAmount)
      p1 == ethTransfer(bn.w, CURVE, sender, netFAIROut)
  IN IF chk # "ok" THEN <<>>
     ELSE <<[callee |-> "token", w |-> w1]>>
          \o (IF bn.err = "ok" THEN <<[callee |-> sender, w |-> bn.w]>>
              ELSE <<>>)
          \o (IF bn.err = "ok" /\ p1.err = "ok" /\ feeAmount > 0
              THEN <<[callee |-> TREASURY, w |-> p1.w]>> ELSE <<>>)

\* the external calls of forceGraduation
forcePoints(w, venueOk) ==
  IF w.graduated \/ w.FAIRRaised < GRADUATION_THRESHOLD THEN <<>>
  ELSE graduationPoints(w, venueOk)

\* a call's result without the state it ends in
Summary(r) ==
  [err |-> r.err, out |-> r.out, net |-> r.net, fee |-> r.fee,
   venue |-> r.venue]

ReentryUsers == {"alice"}
ReentryBuyValues == {4100, 8131}
NestedCallers == {"bob", ROUTER}
NestedValues == {0, 4100}
Idle == frame.op = "none"

\* a call starts: one that makes no external call ends at once, any other
\* call stops at its first external call, buy and sell holding the lock
Begin(op, u, arg, r, points) ==
  /\ Idle
  /\ nOps < MaxOps
  /\ IF points = <<>>
     THEN /\ Install(r.w)
          /\ nOps' = IF r.err = "ok" THEN nOps + 1 ELSE nOps
          /\ lastOp' = Outcome(op, u, arg, 0, r)
          /\ UNCHANGED guardVars
     ELSE /\ Install(points[1].w)
          /\ status' = IF op \in {"buy", "sell"} THEN ENTERED ELSE status
          /\ frame' = [op |-> op, who |-> u, arg |-> arg, points |-> points,
                       i |-> 1, final |-> r]
          /\ lastOp' = [NoOp EXCEPT !.kind = "call"]
          /\ UNCHANGED nOps
  /\ UNCHANGED <<platformFeePercent, elapsed, ledgerVars, factoryVars>>

BeginBuy(u, value, venueOk) ==
  /\ value <= eth[u]
  /\ Begin("buy", u, value,
           buyTokensEntered(World, status, u, value, 0, venueOk),
           buyPoints(World, u, value, 0, venueOk))

BeginSell(u, tokenAmount) ==
  Begin("sell", u, tokenAmount,
        sellTokensEntered(World, status, u, tokenAmount, 0, elapsed),
        sellPoints(World, u, tokenAmount, 0, elapsed))

BeginForceGraduation(venueOk) ==
  LET r == forceGraduation(World, venueOk)
  IN Begin("forceGraduation", "factory", 0,
           [err |-> r.err, w |-> r.w, out |-> 0, net |-> 0, fee |-> 0,
            venue |-> r.venue],
           forcePoints(World, venueOk))

\* the external call in progress returns and the curve reaches its next one
Proceed ==
  /\ ~Idle
  /\ frame.i < Len(frame.points)
  /\ Install(frame.points[frame.i + 1].w)
  /\ frame' = [frame EXCEPT !.i = @ + 1]
  /\ lastOp' = [NoOp EXCEPT !.kind = "proceed"]
  /\ UNCHANGED <<platformFeePercent, elapsed, nOps, status, ledgerVars,
                 factoryVars>>

\* the last external call returns and the call ends: the state is the one
\* the handler computes (the state before the call if it reverted), and the
\* lock is released
Return ==
  /\ ~Idle
  /\ frame.i = Len(frame.points)
  /\ Install(frame.final.w)
  /\ status' = NOT_ENTERED
  /\ frame' = NoFrame
  /\ nOps' = IF frame.final.err = "ok" THEN nOps + 1 ELSE nOps
  /\ lastOp' = Outcome(frame.op, frame.who, frame.arg, 0, frame.final)
  /\ UNCHANGED <<platformFeePercent, elapsed, ledgerVars, factoryVars>>

\* during an external call somebody calls the curve's buy again
NestedBuy(u, value, venueOk) ==
  /\ ~Idle
  /\ value <= eth[u]
  /\ LET r == buyTokensEntered(World, status, u, value, 0, venueOk)
     IN /\ Install(r.w)
        /\ lastOp' = [NoOp EXCEPT !.kind = "nestedBuy", !.err = r.err]
  /\ UNCHANGED <<platformFeePercent, elapsed, nOps, guardVars, ledgerVars,
                 factoryVars>>

\* during an external call somebody calls the curve's sell
NestedSell(u, tokenAmount) ==
  /\ ~Idle
  /\ LET r == sellTokensEntered(World, status, u, tokenAmount, 0, elapsed)
     IN /\ Install(r.w)
        /\ lastOp' = [NoOp EXCEPT !.kind = "nestedSell", !.err = r.err]
  /\ UNCHANGED <<platformFeePercent, elapsed, nOps, guardVars, ledgerVars,
                 factoryVars>>

\* ERC20.approve(curve, amount) between calls
ApproveIdle(u) ==
  /\ Idle
  /\ balanceOf[u] > 0
  /\ allowance[u] # UINT_MAX
  /\ Approve(u, UINT_MAX)

ReentryNext ==
  \/ \E u \in ReentryUsers, v \in ReentryBuyValues :
       \E ok \in VenueOutcomes(v) : BeginBuy(u, v, ok)
  \/ \E u \in ReentryUsers : BeginSell(u, balanceOf[u] \div 2)
  \/ \E ok \in VenueOutcomes(0) : BeginForceGraduation(ok)
  \/ Proceed
  \/ Return
  \/ \E u \in NestedCallers \cup ReentryUsers, v \in NestedValues :
       NestedBuy(u, v, TRUE)
  \/ \E u \in NestedCallers \cup ReentryUsers :
       \E a \in {1, balanceOf[u]} : NestedSell(u, a)
  \/ \E u \in ReentryUsers : ApproveIdle(u)

ReentrySpec == Init /\ [][ReentryNext]_vars

\* ------------------------------------------------ properties, reentrancy lock
\* a buy, a sell or a graduation is in flight: the curve is inside one of
\* its external calls
InFlight == ~Idle

\* the two refusals a nested call can meet
LockRefusals == {"ReentrancyGuardReentrantCall", "Token graduated"}

\* in every state inside an external call, every buy and every sell of the
\* curve would be refused by the lock or by the graduated flag
NestedCallsRefused ==
  InFlight =>
    /\ \A u \in Users \cup {ROUTER, TREASURY}, v \in BuyValues,
          m \in MinTokens, ok \in BOOLEAN :
         LET r == buyTokensEntered(World, status, u, v, m, ok)
         IN r.err \in LockRefusals /\ r.w = World
    /\ \A u \in Users \cup {ROUTER, TREASURY}, m \in MinFAIR :
         \A a \in {1, balanceOf[u], tokensSold} :
           LET r == sellTokensEntered(World, status, u, a, m, elapsed)
           IN r.err \in LockRefusals /\ r.w = World

\* a nested call that is attempted is refused and changes nothing
NestedStep ==
  lastOp'.kind \in {"nestedBuy", "nestedSell"} =>
    /\ lastOp'.err \in LockRefusals
    /\ World' = World
    /\ UNCHANGED <<guardVars, nOps>>

\* C27: the reentrancy lock holds during external calls: while a buy, a sell
\* or a graduation is in flight on a curve (during any external call to the
\* token, the treasury, the seller or the venue, including a graduation
\* started by forceGraduation), every nested call to that curve's buy or
\* sell is rejected and changes no state.
LockHoldsDuringExternalCalls == []NestedCallsRefused /\ [][NestedStep]_vars

\* a nested buy is refused by the lock while a buy is at the treasury's fee
\* payment
NestedBuyRefusedInFlight ==
  /\ lastOp.kind = "nestedBuy"
  /\ frame.op = "buy"
  /\ frame.points[frame.i].callee = TREASURY
  /\ ~graduated
  /\ status = ENTERED
  /\ lastOp.err = "ReentrancyGuardReentrantCall"

\* forceGraduation does not take the lock: a nested buy at the venue call of
\* a graduation it started is refused by the graduated flag
NestedBuyRefusedInForcedGraduation ==
  /\ lastOp.kind = "nestedBuy"
  /\ frame.op = "forceGraduation"
  /\ frame.points[frame.i].callee = ROUTER
  /\ status = NOT_ENTERED
  /\ graduated
  /\ lastOp.err = "Token graduated"

\* ------------------------------------------------- properties, exit in full
\* account u holds every token the curve has sold and has approved the curve
SoleHolder(u) ==
  /\ ~graduated
  /\ tokensSold > 0
  /\ balanceOf[u] = tokensSold
  /\ allowance[u] = UINT_MAX

\* C28: a buyer can always exit in full: in a non-graduated curve, if a single
\* account holds all tokensSold tokens (for example after the first buy on a
\* fresh curve) and has approved the curve, a sell of its entire balance with
\* minFAIROut = 0 succeeds; the reserve guard never rejects selling back
\* everything that was bought.
SoleHolderCanExitInFull ==
  \A u \in Users :
    SoleHolder(u) =>
      sellTokens(World, u, balanceOf[u], 0, elapsed).err = "ok"

\* what the code does instead: as long as the curve holds its recorded
\* reserve, the sole holder's full exit is refused by the reserve guard
\* whenever the buys left the product below its initial value
SoleHolderExitRefused ==
  \A u \in Users :
    (SoleHolder(u) /\ eth[CURVE] >= FAIRRaised
       /\ ProductK < VIRTUAL_FAIR_RESERVES * VIRTUAL_TOKEN_RESERVES) =>
      /\ calculateFAIROut(World, balanceOf[u]) > FAIRRaised
      /\ sellTokens(World, u, balanceOf[u], 0, elapsed).err
           = "Insufficient reserves"

\* ---------------------------------------------- properties, backed reserve
\* C29: the recorded reserve is always backed by real funds: in every
\* reachable state with graduated = false, after any sequence of buys, sells,
\* failed graduation attempts and admin operations (including
\* emergencyWithdraw), the curve's balance is at least FAIRRaised, so every
\* sell that passes the reserve guard can be paid out.
ReserveBacked == ~graduated => eth[CURVE] >= FAIRRaised

\* what the code keeps instead: every operation but emergencyWithdraw leaves
\* a backed reserve backed
ReserveBackedButForWithdraw ==
  [][(ReserveBacked /\ lastOp'.kind # "emergencyWithdraw") => ReserveBacked']_vars

\* after emergencyWithdraw a sell passes the reserve guard and then fails at
\* the payment
SellUnpaidAfterWithdraw ==
  /\ ~graduated
  /\ eth[CURVE] < FAIRRaised
  /\ lastOp.kind = "sell"
  /\ lastOp.err = "Transfer failed"

\* ------------------------------------------ properties, the creator's payment
\* C30: the factory keeps none of the creator's payment: after every
\* successful create, whatever value was sent (including value above
\* tokenCreationFee + initialBuyAmount), the factory's own balance is
\* unchanged from before the call, the whole payment having gone to the
\* treasury, the new curve or back to the creator.
FactoryKeepsNoPayment ==
  [][(lastOp'.kind = "create" /\ lastOp'.err = "ok") =>
       balance'[FACTORY] = balance[FACTORY]]_vars

\* what the code does instead: a successful create leaves in the factory the
\* value sent above tokenCreationFee + initialBuyAmount, and the creator is
\* out of the whole value
FactoryKeepsExcess ==
  [][(lastOp'.kind = "create" /\ lastOp'.err = "ok") =>
       /\ balance'[FACTORY] = balance[FACTORY]
            + (lastOp'.arg - tokenCreationFee - lastOp'.min)
       /\ balance'[lastOp'.who] = balance[lastOp'.who] - lastOp'.arg]_vars

\* a create that sent more than tokenCreationFee + initialBuyAmount went
\* through and the factory holds funds
CreatedWithExcess ==
  /\ CreateSucceeded
  /\ lastOp.arg > tokenCreationFee + lastOp.min
  /\ balance[FACTORY] > 0

====
